---- MODULE Spec2Model ----
(***************************************************************************)
(* Attendance-submission pipeline and progression routes of the acadex     *)
(* backend.                                                                *)
(*                                                                         *)
(* The store is the Firestore collections the handlers touch               *)
(* (live_sessions, attendance, users, department_stats).  Every request is *)
(* a process whose pc names the await it is suspended on; one action is    *)
(* the completion of that await together with the synchronous code that    *)
(* follows it up to the next await (or the response).                      *)
(*                                                                         *)
(* Two snapshots of POST /markAttendance are modelled, selected by the     *)
(* variable build, which is fixed for a whole behaviour:                   *)
(*   "index"    src/index.js:317-360        (the current handler)          *)
(*   "part_006" src/unnamed/part_006:141-178 (the ledger-gated handler,    *)
(*              the same code as src/unnamed/part_001:92-128)              *)
(*                                                                         *)
(* Spec      both snapshots; every request is a well-formed submission of  *)
(*           session A or an endSession of it, so that requests race.      *)
(* SpecIndex the current handler; request 1 is an arbitrary submission and *)
(*           the other requests end sessions beside it.                    *)
(* SpecGeo   both snapshots under every setting of DEMO_MODE; one          *)
(*           submission from a location about the edge of the radius.      *)
(* SpecXp    the routes that write xp and badges (verifyQuickTask,         *)
(*           completeTask, quizAttempt, updateResume,                      *)
(*           submitInteractiveTask, createUser) beside the attendance      *)
(*           award.                                                        *)
(* SpecAward the routes that award through checkAndAwardBadges, for a      *)
(*           student who already holds a badge and is about to earn the    *)
(*           next.                                                         *)
(* SpecBadges checkAndAwardBadges itself, applied to every xp level about  *)
(*           a threshold and every set of badges held.                     *)
(* SpecToken both snapshots; one submission by a signed-in student with an *)
(*           arbitrary scanned code.                                       *)
(* SpecIdentity both snapshots; submissions whose body also names a        *)
(*           student.                                                      *)
(* SpecPasskey the passkey router (src/passkeyRoutes.js and its snapshot   *)
(*           src/unnamed/part_009): start and finish calls of one user,    *)
(*           the in-memory challengeStore and its expiry timers.           *)
(* SpecTwoFactor setup2FA and verify2FA calls of one user.                 *)
(* SpecDelete deleteInstitute with its deleteCollection calls, whose reads *)
(*           and commits may fail; SpecDeleteLive adds weak fairness.      *)
(***************************************************************************)
EXTENDS Integers, Sequences, FiniteSets, TLC

VARIABLES build, env_DEMO_MODE, now, live_sessions, attendance, users,
          department_stats, userProgress, req,
          passkeyBuild, challengeStore, timers, authenticators, pk,
          secrets, is2FAEnabled, tfa,
          matching, deletion

vars == <<build, env_DEMO_MODE, now, live_sessions, attendance, users,
          department_stats, userProgress, req,
          passkeyBuild, challengeStore, timers, authenticators, pk,
          secrets, is2FAEnabled, tfa,
          matching, deletion>>

(* The state of the passkey routes, of the two-factor routes and of        *)
(* deleteInstitute.                                                        *)
PasskeyState == <<passkeyBuild, challengeStore, timers, authenticators, pk>>

TwoFactorState == <<secrets, is2FAEnabled, tfa>>

DeleteState == <<matching, deletion>>

(* What the attendance and progression routes leave alone.                 *)
Elsewhere == <<PasskeyState, TwoFactorState, DeleteState>>

(* ------------------------------ bounds --------------------------------- *)
MaxReq == 2

StartNow == 20000

MaxNow == 20001

Reqs == 1..MaxReq

(* undefined, for a value that is otherwise a string *)
Undefined == <<"undefined">>

(* --------------------------- program constants ------------------------- *)
(* a || b for strings: undefined and '' are falsy.                         *)
OrElse(a, b) == IF a = Undefined \/ a = <<>> THEN b ELSE a

(* const DEMO_MODE = (process.env.DEMO_MODE || 'true') === 'true', where   *)
(* env_DEMO_MODE is process.env.DEMO_MODE (undefined when not configured). *)
DEMO_MODE == OrElse(env_DEMO_MODE, <<"t", "r", "u", "e">>) = <<"t", "r", "u", "e">>

ACCEPTABLE_RADIUS_METERS == 200

QR_WINDOW_SECONDS == 15

ATTENDANCE_XP == 10

BADGE_RULES ==
    << [id |-> "novice", threshold |-> 100],
       [id |-> "enthusiast", threshold |-> 500],
       [id |-> "expert", threshold |-> 1000],
       [id |-> "master", threshold |-> 2000] >>

(* ------------------------------ strings -------------------------------- *)
(* Strings are sequences of one-character strings, so that split, parseInt *)
(* and template concatenation are computed and not assumed.                *)
Digits == {"0", "1", "2", "3", "4", "5", "6", "7", "8", "9"}

DigitVal(c) ==
    CASE c = "0" -> 0 [] c = "1" -> 1 [] c = "2" -> 2 [] c = "3" -> 3
      [] c = "4" -> 4 [] c = "5" -> 5 [] c = "6" -> 6 [] c = "7" -> 7
      [] c = "8" -> 8 [] c = "9" -> 9

NaN == -1

RECURSIVE ParseDigits(_, _, _)
ParseDigits(s, i, acc) ==
    IF i > Len(s) \/ s[i] \notin Digits THEN acc
    ELSE ParseDigits(s, i + 1, acc * 10 + DigitVal(s[i]))

(* parseInt(str): the value of the longest prefix of digits, NaN when the  *)
(* string does not start with a digit.  (Signs and leading blanks are not  *)
(* in the alphabet of the tokens the model draws.)                         *)
parseInt(s) ==
    IF Len(s) = 0 \/ s[1] \notin Digits THEN NaN ELSE ParseDigits(s, 1, 0)

RECURSIVE SplitFrom(_, _, _, _)
SplitFrom(s, sep, i, cur) ==
    IF i > Len(s) THEN <<cur>>
    ELSE IF s[i] = sep THEN <<cur>> \o SplitFrom(s, sep, i + 1, <<>>)
    ELSE SplitFrom(s, sep, i + 1, Append(cur, s[i]))

(* String.prototype.split(sep) for a one-character separator.              *)
Split(s, sep) == SplitFrom(s, sep, 1, <<>>)

(* const [realSessionId, timestamp] = sessionId.split('|'): the first two  *)
(* parts; a missing second part is undefined.                              *)
SplitToken(tok) ==
    LET parts == Split(tok, "|")
    IN [realSessionId |-> parts[1],
        timestamp |-> IF Len(parts) >= 2 THEN parts[2] ELSE Undefined]

(* `${realSessionId}_${studentUid}`                                        *)
AttendanceDocId(sid, uid) == sid \o <<"_">> \o uid

(* ------------------------- inputs the model draws ---------------------- *)
(* The documents of live_sessions.                                         *)
SessionIds == { <<"A">>, <<"B">> }

Uids == { <<"u">>, <<"v">> }

(* Authorization header: absent ("missing"), present without the 'Bearer ' *)
(* prefix ("malformed"), a bearer token the verifier rejects ("invalid"),  *)
(* or the ID token of a student ("valid").                                 *)
Creds ==
    { [kind |-> k, uid |-> Undefined] : k \in {"missing", "malformed", "invalid"} }
      \cup { [kind |-> "valid", uid |-> u] : u \in Uids }

Tokens ==
    { <<"A">>,
      <<"A", "|">>,
      <<"A", "|", "5", "0", "0", "0">>,
      <<"A", "|", "x">>,
      <<"|", "5", "0", "0", "0">>,
      <<"B">>,
      <<"C">> }

(* req.body.sessionId may also be absent.                                  *)
BodyTokens == Tokens \cup {Undefined}

(* A well-formed submission: a student's ID token, a code of session A     *)
(* issued at 5000 ms, a device location on the edge of the radius.         *)
ValidCreds == { c \in Creds : c.kind = "valid" }

FreshTokens == { <<"A", "|", "5", "0", "0", "0">> }

(* The values of process.env.DEMO_MODE: not configured, or 'false'.        *)
DeployedEnvs == { Undefined, <<"f", "a", "l", "s", "e">> }

(* Every way of setting it: also '' and 'true'.                            *)
AllEnvs == DeployedEnvs \cup { <<>>, <<"t", "r", "u", "e">> }

(* A location is <<>> (absent) or <<p>>, a position along one meridian in   *)
(* tenths of a metre.                                                      *)
UnitsPerMeter == 10

StudentLocations == { <<>>, <<2000>>, <<2001>> }

NearLocations == { <<2000>> }

(* Device locations about the edge of the radius: at the classroom, on the *)
(* edge (200.0 m), and 200.1 m, 200.4 m, 200.5 m, 201.5 m away.            *)
GeoLocations == { <<>>, <<0>>, <<2000>>, <<2001>>, <<2004>>, <<2005>>, <<2015>> }

(* Codes without a timestamp, of session A and of session B.               *)
GeoTokens == { <<"A">>, <<"B">> }

(* Session A has a registered location, session B has none; there is no   *)
(* session C.                                                              *)
SessionLocation(s) == IF s = <<"A">> THEN <<0>> ELSE <<>>

(* Student u is one attendance short of the first badge.                   *)
InitialXp(u) == IF u = <<"u">> THEN 90 ELSE 0

(* ------------------------------ geofence ------------------------------- *)
Abs(x) == IF x < 0 THEN -x ELSE x

(* getDistance restricted to points on one meridian, where the haversine   *)
(* distance is the difference of the two positions; the result is in       *)
(* tenths of a metre.                                                      *)
getDistance(a, b) == Abs(a - b)

(* dist > ACCEPTABLE_RADIUS_METERS, for dist in tenths of a metre.         *)
TooFar(dist) == dist > ACCEPTABLE_RADIUS_METERS * UnitsPerMeter

(* Math.round(dist): the nearest whole number of metres, halves upwards.   *)
MathRound(dist) == (2 * dist + UnitsPerMeter) \div (2 * UnitsPerMeter)

(* ------------------------------- store --------------------------------- *)
NoSession ==
    [exists |-> FALSE, isActive |-> FALSE, location |-> <<>>,
     instituteId |-> FALSE, department |-> FALSE]

(* A Timestamp field that is not set.                                      *)
NoTime == 0

(* The fields of a users document that the handlers read or write.         *)
UserDoc(xp, badges) ==
    [xp |-> xp, badges |-> badges, attendanceCount |-> 0,
     lastQuickTaskTime |-> NoTime, lastTaskTime |-> NoTime, resumeData |-> FALSE]

NoUser == UserDoc(0, {})

(* collection('live_sessions').doc(id).get()                               *)
SessionGet(id) == IF id \in DOMAIN live_sessions THEN live_sessions[id] ELSE NoSession

(* The gate that forgets the isActive flag.                                *)
SessionUsable_ExistsOnly(snap) == snap.exists

(* !(!sessionSnap.exists || !sessionSnap.data().isActive)                  *)
SessionUsable(snap) == snap.exists /\ snap.isActive

(* collection('attendance').doc(id).get().exists                           *)
AttendanceExists(id) == \E d \in attendance : d.id = id

(* A write that adds a document instead of replacing the one with the id.  *)
AttendanceSet_Add(id, data) == attendance \cup { [id |-> id] @@ data }

(* collection('attendance').doc(id).set(data): the document with this id   *)
(* is replaced, or created when there is none.                             *)
AttendanceSet(id, data) ==
    { d \in attendance : d.id # id } \cup { [id |-> id] @@ data }

(* ------------------------------ requests ------------------------------- *)
NoCred == [kind |-> "missing", uid |-> Undefined]

IdleReq ==
    [pc |-> "idle", route |-> "none", cred |-> NoCred, tok |-> Undefined,
     loc |-> <<>>, studentUid |-> Undefined, realSessionId |-> Undefined,
     session |-> NoSession, userSnap |-> NoUser, newBadges |-> {},
     status |-> 0, msg |-> "none", distance |-> <<>>, parsedAt |-> 0,
     \* history of the request, read by the properties only
     after |-> {}, lookedUp |-> FALSE, wroteRecord |-> FALSE,
     created |-> FALSE, award |-> "none", evaluated |-> FALSE,
     ended |-> FALSE, counted |-> FALSE,
     \* inputs and locals of the progression routes
     xpReward |-> <<>>, score |-> 0, extras |-> [xp |-> <<>>, badges |-> <<>>],
     stamp |-> NoTime, points |-> 0,
     \* what the request has written to the server's error stream
     console |-> <<>>,
     \* req.body.studentId, a field the handlers do not read
     bodyStudentId |-> Undefined]

Respond(q, code, m) == [q EXCEPT !.pc = "done", !.status = code, !.msg = m]

(* catch (err) of POST /markAttendance                                     *)
(* index:    console.error(err); res.status(500).json({error: err.message})*)
(* part_006: res.status(500).json({ error: err.message })                  *)
MarkCatch(q, m) ==
    [Respond(q, 500, m) EXCEPT
        !.console = IF build = "index" THEN Append(q.console, [error |-> m])
                    ELSE q.console]

(* What the attendance and session handlers never write.                   *)
Others == <<build, env_DEMO_MODE, now, userProgress, Elsewhere>>

(* ------------------------- passkey routes: state ----------------------- *)
(* Two snapshots of the passkey router, selected by passkeyBuild:          *)
(*   "passkeyRoutes" src/passkeyRoutes.js                                   *)
(*   "part_009"      src/unnamed/part_009 (expiry timers, and a challenge  *)
(*                   test in login-finish)                                 *)
PasskeyBuilds == { "passkeyRoutes", "part_009" }

(* The passkey calls of one behaviour.                                     *)
MaxPkReq == 3

PkReqs == 1..MaxPkReq

PkUsers == { <<"u">> }

(* challengeStore[userId] when the key is absent (undefined).              *)
NoChallenge == 0

(* Credential ids: k1 is registered before the first request, k2 is the    *)
(* one a registration adds.                                                *)
CredentialIds == { "k1", "k2" }

InitAuthenticators == [u \in PkUsers |-> { [credentialID |-> "k1", counter |-> 0] }]

IdlePk ==
    [pc |-> "idle", route |-> "none", userId |-> Undefined,
     \* req.body.data: the credential that answers and the challenge it signed
     data |-> [id |-> "k1", challenge |-> NoChallenge],
     expectedChallenge |-> NoChallenge, user |-> {}, newCounter |-> 0,
     status |-> 0,
     \* history of the request, read by the properties only
     issued |-> NoChallenge, issuedAt |-> 0, verifyCalled |-> FALSE,
     verifiedAgainst |-> NoChallenge]

(* No passkey request has arrived.                                         *)
PasskeyIdle ==
    /\ challengeStore = [u \in PkUsers |-> NoChallenge]
    /\ timers = {}
    /\ authenticators = InitAuthenticators
    /\ pk = [r \in PkReqs |-> IdlePk]

(* ----------------------- two-factor routes: state ---------------------- *)
(* The two-factor calls of one behaviour.                                  *)
MaxTfaReq == 3

TfaReqs == 1..MaxTfaReq

TfaUsers == { <<"u">> }

(* A field of the secrets document that is not set.                        *)
NoSecret == 0

(* secrets/{uid} when the document does not exist.                         *)
NoSecretDoc == [exists |-> FALSE, secret |-> NoSecret, tempSecret |-> NoSecret]

IdleTfa ==
    [pc |-> "idle", route |-> "none", uid |-> Undefined,
     \* req.body: the secret the submitted code was computed from, and isLogin
     userCode |-> NoSecret, isLogin |-> FALSE,
     secret |-> NoSecret, secretKey |-> NoSecret, status |-> 0]

(* No two-factor request has arrived and no user has set it up.            *)
TwoFactorIdle ==
    /\ secrets = [u \in TfaUsers |-> NoSecretDoc]
    /\ is2FAEnabled = [u \in TfaUsers |-> FALSE]
    /\ tfa = [r \in TfaReqs |-> IdleTfa]

(* ----------------------- deleteInstitute: state ------------------------ *)
(* The collections that deleteInstitute clears, in the order of its calls  *)
(* of deleteCollection (two of the six).                                   *)
DelCollections == << "users", "attendance" >>

(* The most documents of the institute that a collection holds.            *)
MaxDocs == 3

IdleDeletion ==
    [pc |-> "idle",
     \* deleteCollection: the collection of the call, the state of the promise
     \* it returned, and the round of deleteQueryBatch
     call |-> 0, promise |-> "none", round |-> 0,
     \* snapshot.size of the round
     size |-> 0, status |-> 0]

(* No deleteInstitute request has arrived.                                 *)
DeleteIdle ==
    /\ matching = [c \in DOMAIN DelCollections |-> 0]
    /\ deletion = IdleDeletion

(* The collections before the first request, with the users collection one *)
(* of profiles.                                                            *)
InitCore(envs, profiles) ==
    /\ build \in {"index", "part_006"}
    /\ env_DEMO_MODE \in envs
    /\ now = StartNow
    /\ live_sessions =
          [s \in SessionIds |->
             [exists |-> TRUE, isActive |-> TRUE, location |-> SessionLocation(s),
              instituteId |-> TRUE, department |-> TRUE]]
    /\ attendance = {}
    /\ users \in profiles
    /\ department_stats = 0
    /\ userProgress = [u \in Uids |-> 0]
    /\ req = [r \in Reqs |-> IdleReq]

(* The server before the first request.                                    *)
InitStore(envs, profiles) ==
    /\ InitCore(envs, profiles)
    /\ passkeyBuild = "passkeyRoutes"
    /\ PasskeyIdle
    /\ TwoFactorIdle
    /\ DeleteIdle

InitWith(envs) == InitStore(envs, { [u \in Uids |-> UserDoc(InitialXp(u), {})] })

Init == InitWith(DeployedEnvs)

Tick ==
    /\ now < MaxNow
    /\ now' = now + 1
    /\ UNCHANGED <<build, env_DEMO_MODE, live_sessions, attendance, users,
                   department_stats, userProgress, req, Elsewhere>>

SetReq(r, q) == req' = [req EXCEPT ![r] = q]

(* ------------------------- ProgressionEngine --------------------------- *)
(* The rule test with > in place of >=.                                    *)
NewBadgesFor_Strict(currentXp, currentBadges) ==
    { BADGE_RULES[i].id : i \in { j \in DOMAIN BADGE_RULES :
          currentXp > BADGE_RULES[j].threshold
          /\ BADGE_RULES[j].id \notin currentBadges } }

(* checkAndAwardBadges, the synchronous part: the ids of the rules whose   *)
(* threshold is reached and that currentBadges does not hold.              *)
NewBadgesFor(currentXp, currentBadges) ==
    { BADGE_RULES[i].id : i \in { j \in DOMAIN BADGE_RULES :
          currentXp >= BADGE_RULES[j].threshold
          /\ BADGE_RULES[j].id \notin currentBadges } }

(* ------------------------ RotatingQRToken check ------------------------ *)
(* The comparison with >= in place of >.                                   *)
QrExpired_Inclusive(timestamp, t) ==
    /\ timestamp # Undefined
    /\ timestamp # <<>>
    /\ parseInt(timestamp) # NaN
    /\ t - parseInt(timestamp) >= QR_WINDOW_SECONDS * 1000

(* The check that treats a code without an issue time as expired.          *)
QrExpired_MissingExpires(timestamp, t) ==
    \/ timestamp = Undefined
    \/ timestamp = <<>>
    \/ /\ parseInt(timestamp) # NaN
       /\ t - parseInt(timestamp) > QR_WINDOW_SECONDS * 1000

(* timestamp && (Date.now() - parseInt(timestamp))/1000 > 15               *)
(* An undefined or empty timestamp is falsy; NaN compares false; for       *)
(* integers d, d/1000 > 15 exactly when d > 15 * 1000.                     *)
QrExpired(timestamp, t) ==
    /\ timestamp # Undefined
    /\ timestamp # <<>>
    /\ parseInt(timestamp) # NaN
    /\ t - parseInt(timestamp) > QR_WINDOW_SECONDS * 1000

(* -------------------------- POST /markAttendance ----------------------- *)
(* The synchronous code before the first await: the Authorization header.  *)
MarkStartBody(r, creds, tokens, locations, studentIds) ==
    /\ req[r].pc = "idle"
    /\ \E c \in creds, t \in tokens, l \in locations, b \in studentIds :
         LET q == [req[r] EXCEPT !.route = "mark", !.cred = c, !.tok = t, !.loc = l,
                                 !.bodyStudentId = b,
                                 !.after = { o \in Reqs : req[o].pc = "done" }]
             noToken ==
                 IF build = "index" THEN c.kind = "missing"
                 ELSE c.kind \in {"missing", "malformed"}
         IN SetReq(r, IF noToken THEN Respond(q, 401, "Missing token")
                      ELSE [q EXCEPT !.pc = "verify"])
    /\ UNCHANGED <<Others, live_sessions, attendance, users, department_stats>>

(* A submission whose body has the two fields the handler reads.           *)
MarkStartWith(r, creds, tokens, locations) ==
    MarkStartBody(r, creds, tokens, locations, {Undefined})

(* A well-formed submission arrives.                                       *)
MarkStart(r) == MarkStartWith(r, ValidCreds, FreshTokens, NearLocations)

(* An arbitrary submission arrives.                                        *)
MarkStartAny(r) == MarkStartWith(r, Creds, BodyTokens, StudentLocations)

(* The code after verifyIdToken resolves: parse and check the scanned code *)
ParseToken(q, uid) ==
    IF q.tok = Undefined THEN MarkCatch(q, "TypeError")
    ELSE LET p == SplitToken(q.tok)
             q1 == [q EXCEPT !.studentUid = uid,
                             !.realSessionId = p.realSessionId,
                             !.parsedAt = now]
         IN IF build = "index"
            THEN IF p.realSessionId = <<>> THEN Respond(q1, 400, "Invalid QR")
                 ELSE IF QrExpired(p.timestamp, now) THEN Respond(q1, 400, "QR Expired!")
                 ELSE [q1 EXCEPT !.pc = "sessGet"]
            ELSE IF p.realSessionId = <<>> THEN MarkCatch(q1, "invalid path")
                 ELSE [q1 EXCEPT !.pc = "sessGet"]

(* The handler that takes the student from the body when the body names   *)
(* one.                                                                    *)
MarkVerify_BodyIdentity(r) ==
    /\ req[r].pc = "verify"
    /\ req[r].route = "mark"
    /\ SetReq(r, IF req[r].cred.kind = "valid"
                 THEN ParseToken(req[r], OrElse(req[r].bodyStudentId, req[r].cred.uid))
                 ELSE MarkCatch(req[r], "verifyIdToken rejected"))
    /\ UNCHANGED <<Others, live_sessions, attendance, users, department_stats>>

(* await admin.auth().verifyIdToken(token)                                 *)
MarkVerify(r) ==
    /\ req[r].pc = "verify"
    /\ req[r].route = "mark"
    /\ SetReq(r, IF req[r].cred.kind = "valid"
                 THEN ParseToken(req[r], req[r].cred.uid)
                 ELSE MarkCatch(req[r], "verifyIdToken rejected"))
    /\ UNCHANGED <<Others, live_sessions, attendance, users, department_stats>>

(* The geofence block whose rejections answer without returning.           *)
Geofence_NoReturn(q, session) ==
    IF DEMO_MODE THEN [q EXCEPT !.pc = "userGet"]
    ELSE IF session.location = <<>> \/ q.loc = <<>>
         THEN [q EXCEPT !.pc = "userGet", !.status = 400, !.msg = "Location missing"]
    ELSE IF TooFar(getDistance(session.location[1], q.loc[1]))
         THEN [q EXCEPT !.pc = "userGet", !.status = 403, !.msg = "Too far!"]
    ELSE [q EXCEPT !.pc = "userGet"]

(* The geofence block that follows the session check.                      *)
(* index:    { error: `Too far! (${Math.round(dist)}m)` }                  *)
(* part_006: no check of the two locations (reading latitude of undefined  *)
(*           throws), and { error: 'Too far!' }                            *)
Geofence(q, session) ==
    IF DEMO_MODE THEN [q EXCEPT !.pc = "userGet"]
    ELSE IF session.location = <<>> \/ q.loc = <<>>
         THEN IF build = "index" THEN Respond(q, 400, "Location missing")
              ELSE MarkCatch(q, "TypeError")
    ELSE LET dist == getDistance(session.location[1], q.loc[1])
         IN IF TooFar(dist)
            THEN Respond([q EXCEPT !.distance = IF build = "index"
                                                THEN <<MathRound(dist)>> ELSE <<>>],
                         403, "Too far!")
            ELSE [q EXCEPT !.pc = "userGet"]

(* The handler that runs the geofence block before the session check.      *)
MarkSessionGet_GeofenceFirst(r) ==
    /\ req[r].pc = "sessGet"
    /\ LET snap == SessionGet(req[r].realSessionId)
           q == [req[r] EXCEPT !.lookedUp = TRUE, !.session = snap]
           g == Geofence(q, snap)
       IN SetReq(r, IF g.pc = "done" THEN g
                    ELSE IF ~SessionUsable(snap) THEN Respond(q, 404, "Session not active")
                    ELSE g)
    /\ UNCHANGED <<Others, live_sessions, attendance, users, department_stats>>

(* await sessionRef.get()                                                  *)
MarkSessionGet(r) ==
    /\ req[r].pc = "sessGet"
    /\ LET snap == SessionGet(req[r].realSessionId)
           q == [req[r] EXCEPT !.lookedUp = TRUE, !.session = snap]
       IN SetReq(r, IF ~SessionUsable(snap)
                    THEN Respond(q, 404, "Session not active")
                    ELSE Geofence(q, snap))
    /\ UNCHANGED <<Others, live_sessions, attendance, users, department_stats>>

(* await userRef.get()                                                     *)
MarkUserGet(r) ==
    /\ req[r].pc = "userGet"
    /\ SetReq(r, [req[r] EXCEPT !.userSnap = users[req[r].studentUid],
                                !.pc = IF build = "index" THEN "attSet" ELSE "attGet"])
    /\ UNCHANGED <<Others, live_sessions, attendance, users, department_stats>>

(* (await attRef.get()).exists: the ledger check of the part_006 handler.  *)
MarkAttendanceGet(r) ==
    /\ req[r].pc = "attGet"
    /\ SetReq(r, IF AttendanceExists(AttendanceDocId(req[r].realSessionId, req[r].studentUid))
                 THEN Respond(req[r], 200, "Already marked!")
                 ELSE [req[r] EXCEPT !.pc = "attSet"])
    /\ UNCHANGED <<Others, live_sessions, attendance, users, department_stats>>

(* await collection('attendance').doc(`${realSessionId}_${studentUid}`).set *)
MarkAttendanceSet(r) ==
    /\ req[r].pc = "attSet"
    /\ LET id == AttendanceDocId(req[r].realSessionId, req[r].studentUid)
       IN /\ attendance' = AttendanceSet(id,
                 [sessionId |-> req[r].realSessionId,
                  studentId |-> req[r].studentUid,
                  timestamp |-> now, status |-> "Present"])
          /\ SetReq(r, [req[r] EXCEPT !.pc = "userUpd", !.wroteRecord = TRUE,
                                      !.created = ~AttendanceExists(id)])
    /\ UNCHANGED <<Others, live_sessions, users, department_stats>>

(* index:    await userRef.update({attendanceCount: increment(1)})         *)
(* part_006: await userRef.update({xp: newXp}), then the synchronous part  *)
(*           of checkAndAwardBadges(userRef, newXp, userSnap.data().badges)*)
MarkUserUpdate(r) ==
    /\ req[r].pc = "userUpd"
    /\ LET u == req[r].studentUid
           q == [req[r] EXCEPT !.award = IF build = "index" THEN "attendanceCount" ELSE "xp"]
           newXp == req[r].userSnap.xp + ATTENDANCE_XP
           nb == NewBadgesFor(newXp, req[r].userSnap.badges)
       IN IF build = "index"
          THEN /\ users' = [users EXCEPT ![u].attendanceCount = @ + 1]
               /\ SetReq(r, Respond(q, 200, "Attendance Marked!"))
          ELSE /\ users' = [users EXCEPT ![u].xp = newXp]
               /\ SetReq(r, IF nb # {}
                            THEN [q EXCEPT !.pc = "badgeUpd", !.newBadges = nb, !.evaluated = TRUE]
                            ELSE Respond([q EXCEPT !.evaluated = TRUE], 200, "Attendance Marked!"))
    /\ UNCHANGED <<Others, live_sessions, attendance, department_stats>>

(* await userRef.update({badges: arrayUnion(...newBadges)})                *)
MarkBadgeUpdate(r) ==
    /\ req[r].pc = "badgeUpd"
    /\ users' = [users EXCEPT ![req[r].studentUid].badges = @ \cup req[r].newBadges]
    /\ SetReq(r, Respond(req[r], 200, "Attendance Marked!"))
    /\ UNCHANGED <<Others, live_sessions, attendance, department_stats>>

(* ---------------------------- POST /endSession ------------------------- *)
EndStartWith(r, sessions) ==
    /\ req[r].pc = "idle"
    /\ \E s \in sessions :
         SetReq(r, [req[r] EXCEPT !.route = "end", !.realSessionId = s, !.pc = "endGet",
                                  !.after = { o \in Reqs : req[o].pc = "done" }])
    /\ UNCHANGED <<Others, live_sessions, attendance, users, department_stats>>

EndStart(r) == EndStartWith(r, { <<"A">> })

EndStartAny(r) == EndStartWith(r, SessionIds)

(* The handler that ends whatever it finds.                                *)
ShouldEnd_Always(snap) == TRUE

(* if (sessionSnap.data().isActive)                                        *)
ShouldEnd(snap) == snap.isActive

(* await sessionRef.get()                                                  *)
EndSessionGet(r) ==
    /\ req[r].pc = "endGet"
    /\ LET snap == SessionGet(req[r].realSessionId)
           q == [req[r] EXCEPT !.lookedUp = TRUE, !.session = snap]
       IN SetReq(r, IF ~snap.exists THEN Respond(q, 404, "Not found")
                    ELSE IF ShouldEnd(snap) THEN [q EXCEPT !.pc = "endUpd"]
                    ELSE Respond(q, 200, "Ended."))
    /\ UNCHANGED <<Others, live_sessions, attendance, users, department_stats>>

(* An update that flips the flag.                                          *)
EndedSession_Toggle(doc) == [doc EXCEPT !.isActive = ~@]

(* The document after update({ isActive: false }).                         *)
EndedSession(doc) == [doc EXCEPT !.isActive = FALSE]

(* await sessionRef.update({ isActive: false })                            *)
EndSessionUpdate(r) ==
    /\ req[r].pc = "endUpd"
    /\ live_sessions' = [live_sessions EXCEPT ![req[r].realSessionId] = EndedSession(@)]
    /\ SetReq(r, IF req[r].session.instituteId /\ req[r].session.department
                 THEN [req[r] EXCEPT !.pc = "statsSet", !.ended = TRUE]
                 ELSE Respond([req[r] EXCEPT !.ended = TRUE], 200, "Ended."))
    /\ UNCHANGED <<Others, attendance, users, department_stats>>

(* await statsRef.set({ totalClasses: increment(1), ... }, { merge: true }) *)
EndStatsSet(r) ==
    /\ req[r].pc = "statsSet"
    /\ department_stats' = department_stats + 1
    /\ SetReq(r, Respond([req[r] EXCEPT !.counted = TRUE], 200, "Ended."))
    /\ UNCHANGED <<Others, live_sessions, attendance, users>>

(* ------------------------- dependency failure -------------------------- *)
Awaits == {"verify", "sessGet", "userGet", "attGet", "attSet", "userUpd", "badgeUpd",
           "endGet", "endUpd", "statsSet"}

(* The pending call to the identity provider or the store rejects: the     *)
(* handler's catch answers 500 and the call has written nothing. The catch *)
(* of POST /endSession writes nothing to the error stream.                 *)
DependencyFailure(r) ==
    /\ req[r].pc \in Awaits
    /\ SetReq(r, IF req[r].route = "mark" THEN MarkCatch(req[r], "dependency error")
                 ELSE Respond(req[r], 500, "dependency error"))
    /\ UNCHANGED <<Others, live_sessions, attendance, users, department_stats>>

Next ==
    \/ Tick
    \/ \E r \in Reqs :
         \/ MarkStart(r)
         \/ MarkVerify(r)
         \/ MarkSessionGet(r)
         \/ MarkUserGet(r)
         \/ MarkAttendanceGet(r)
         \/ MarkAttendanceSet(r)
         \/ MarkUserUpdate(r)
         \/ MarkBadgeUpdate(r)
         \/ EndStart(r)
         \/ EndSessionGet(r)
         \/ EndSessionUpdate(r)
         \/ EndStatsSet(r)
         \/ DependencyFailure(r)

Spec == Init /\ [][Next]_vars

(* The current handler only: src/index.js:317-360.                         *)
InitIndex == Init /\ build = "index"

NextIndex ==
    \/ Tick
    \/ MarkStartAny(1)
    \/ \E r \in Reqs \ {1} : EndStartAny(r)
    \/ \E r \in Reqs :
         \/ MarkVerify(r)
         \/ MarkSessionGet(r)
         \/ MarkUserGet(r)
         \/ MarkAttendanceSet(r)
         \/ MarkUserUpdate(r)
         \/ EndSessionGet(r)
         \/ EndSessionUpdate(r)
         \/ EndStatsSet(r)
         \/ DependencyFailure(r)

SpecIndex == InitIndex /\ [][NextIndex]_vars

(* The scanned code: both handlers, one submission by a signed-in student  *)
(* with an arbitrary code, at a time on either side of the window.         *)
MarkStartToken(r) == MarkStartWith(r, ValidCreds, BodyTokens, NearLocations)

NextToken ==
    \/ Tick
    \/ MarkStartToken(1)
    \/ \E r \in Reqs :
         \/ MarkVerify(r)
         \/ MarkSessionGet(r)
         \/ MarkUserGet(r)
         \/ MarkAttendanceGet(r)
         \/ MarkAttendanceSet(r)
         \/ MarkUserUpdate(r)
         \/ MarkBadgeUpdate(r)
         \/ DependencyFailure(r)

SpecToken == Init /\ [][NextToken]_vars

(* The identity of the record: submissions of session A by a signed-in     *)
(* student whose body also names a student, the same or another.           *)
MarkStartIdentity(r) == MarkStartBody(r, ValidCreds, FreshTokens, NearLocations, Uids)

NextIdentity ==
    \E r \in Reqs :
        \/ MarkStartIdentity(r)
        \/ MarkVerify(r)
        \/ MarkSessionGet(r)
        \/ MarkUserGet(r)
        \/ MarkAttendanceGet(r)
        \/ MarkAttendanceSet(r)
        \/ MarkUserUpdate(r)
        \/ MarkBadgeUpdate(r)
        \/ DependencyFailure(r)

SpecIdentity == Init /\ [][NextIdentity]_vars

(* The geofence: both handlers, every setting of DEMO_MODE, one submission *)
(* by a signed-in student from a location about the edge of the radius.    *)
InitGeo == InitWith(AllEnvs)

MarkStartGeo(r) == MarkStartWith(r, ValidCreds, GeoTokens, GeoLocations)

NextGeo ==
    \/ MarkStartGeo(1)
    \/ \E r \in Reqs :
         \/ MarkVerify(r)
         \/ MarkSessionGet(r)
         \/ MarkUserGet(r)
         \/ MarkAttendanceGet(r)
         \/ MarkAttendanceSet(r)
         \/ MarkUserUpdate(r)
         \/ MarkBadgeUpdate(r)
         \/ DependencyFailure(r)

SpecGeo == InitGeo /\ [][NextGeo]_vars

(* ------------------------- progression routes -------------------------- *)
(* The student whose uid the progression requests carry.                   *)
XpUids == { <<"u">> }

(* req.body.xpReward: absent, 0, 100 or -100.                              *)
XpRewards == { <<>>, <<0>>, <<100>>, <<-100>> }

(* proofText.length; 0 stands for an absent or empty proofText.            *)
ProofLengths == { 0, 14, 15 }

(* req.body.score                                                          *)
Scores == { 60, 61 }

(* req.body.extras: {}, { badges: ['master'] } or { xp: 500 }.             *)
NoExtras == [xp |-> <<>>, badges |-> <<>>]

ExtrasSet ==
    { NoExtras,
      [xp |-> <<>>, badges |-> << {"master"} >>],
      [xp |-> <<500>>, badges |-> <<>>] }

(* userRecord.uid of the account that admin.auth().createUser makes.       *)
NewUid == <<"w">>

COOLDOWN_MINUTES == 15

MsPerMinute == 60000

(* lastTime && (now.toMillis() - lastTime.toMillis()) / (1000 * 60) < 15   *)
CooldownActive(lastTime, t) ==
    lastTime # NoTime /\ (t - lastTime) < COOLDOWN_MINUTES * MsPerMinute

(* xpReward || 30: an absent reward and 0 are falsy.                       *)
Points(xpReward) == IF xpReward = <<>> \/ xpReward[1] = 0 THEN 30 ELSE xpReward[1]

(* A quarter of an hour passes.                                            *)
CooldownPasses ==
    /\ now < MaxNow
    /\ now' = now + COOLDOWN_MINUTES * MsPerMinute
    /\ UNCHANGED <<build, env_DEMO_MODE, live_sessions, attendance, users,
                   department_stats, userProgress, req, Elsewhere>>

StartReq(r, route) ==
    [req[r] EXCEPT !.route = route, !.after = { o \in Reqs : req[o].pc = "done" }]

(* The handlers below leave everything but users and req as it is.         *)
XpFrame == UNCHANGED <<Others, live_sessions, attendance, department_stats>>

(* The evaluation that forgets the badges already held.                    *)
EvaluateBadges_IgnoreHeld(q, currentXp, m) ==
    LET nb == NewBadgesFor(currentXp, {})
        q1 == [q EXCEPT !.evaluated = TRUE, !.award = "xp", !.newBadges = nb]
    IN IF nb # {} THEN [q1 EXCEPT !.pc = "xpBadgeUpd", !.msg = m]
       ELSE Respond(q1, 200, m)

(* checkAndAwardBadges after the update of xp: its synchronous part, and   *)
(* the response when there is nothing to award.                            *)
EvaluateBadges(q, currentXp, m) ==
    LET nb == NewBadgesFor(currentXp, q.userSnap.badges)
        q1 == [q EXCEPT !.evaluated = TRUE, !.award = "xp", !.newBadges = nb]
    IN IF nb # {} THEN [q1 EXCEPT !.pc = "xpBadgeUpd", !.msg = m]
       ELSE Respond(q1, 200, m)

(* The update that stores the new badges in place of the old ones.         *)
XpBadgeUpdate_Replace(r) ==
    /\ req[r].pc = "xpBadgeUpd"
    /\ users' = [users EXCEPT ![req[r].studentUid].badges = req[r].newBadges]
    /\ SetReq(r, Respond(req[r], 200, req[r].msg))
    /\ XpFrame

(* await userRef.update({ badges: arrayUnion(...newBadges) }) of the task  *)
(* routes, and their response.                                             *)
XpBadgeUpdate(r) ==
    /\ req[r].pc = "xpBadgeUpd"
    /\ users' = [users EXCEPT ![req[r].studentUid].badges = @ \cup req[r].newBadges]
    /\ SetReq(r, Respond(req[r], 200, req[r].msg))
    /\ XpFrame

(* POST /verifyQuickTask (index.js): the checks of the body.               *)
QuickStart(r) ==
    /\ req[r].pc = "idle"
    /\ build = "index"
    /\ \E uid \in XpUids, len \in ProofLengths, x \in XpRewards :
         LET q == [StartReq(r, "quickTask") EXCEPT !.studentUid = uid, !.xpReward = x]
         IN SetReq(r, IF len = 0 THEN Respond(q, 400, "Missing Data")
                      ELSE IF len < 15 THEN Respond(q, 400, "Too short.")
                      ELSE [q EXCEPT !.pc = "qtGet"])
    /\ UNCHANGED users
    /\ XpFrame

(* await userRef.get(); Timestamp.now(); the cooldown check                *)
QuickUserGet(r) ==
    /\ req[r].pc = "qtGet"
    /\ LET q == [req[r] EXCEPT !.userSnap = users[req[r].studentUid], !.stamp = now]
       IN SetReq(r, IF CooldownActive(q.userSnap.lastQuickTaskTime, now)
                    THEN Respond(q, 429, "Cooldown active.")
                    ELSE [q EXCEPT !.pc = "qtAI"])
    /\ UNCHANGED users
    /\ XpFrame

(* await callGroqAI(...): the verdict is the model's to give.              *)
QuickAI(r) ==
    /\ req[r].pc = "qtAI"
    /\ \E verdict \in {"VALID", "INVALID"} :
         SetReq(r, IF verdict = "INVALID" THEN Respond(req[r], 400, "AI Rejected.")
                   ELSE [req[r] EXCEPT !.pc = "qtUpd", !.points = Points(req[r].xpReward)])
    /\ UNCHANGED users
    /\ XpFrame

(* await userRef.update({ xp: increment(points), lastQuickTaskTime: now }) *)
(* and checkAndAwardBadges(userRef, (userData.xp || 0) + points, badges)   *)
QuickUpdate(r) ==
    /\ req[r].pc = "qtUpd"
    /\ users' = [users EXCEPT ![req[r].studentUid].xp = @ + req[r].points,
                              ![req[r].studentUid].lastQuickTaskTime = req[r].stamp]
    /\ SetReq(r, EvaluateBadges(req[r], req[r].userSnap.xp + req[r].points, "Verified!"))
    /\ XpFrame

(* POST /completeTask (part_006:230-246, part_001:211-226)                 *)
CompleteStart(r) ==
    /\ req[r].pc = "idle"
    /\ build = "part_006"
    /\ \E uid \in XpUids \cup {Undefined} :
         LET q == [StartReq(r, "completeTask") EXCEPT !.studentUid = uid]
         IN SetReq(r, IF uid = Undefined THEN Respond(q, 400, "UID missing")
                      ELSE [q EXCEPT !.pc = "ctGet"])
    /\ UNCHANGED users
    /\ XpFrame

CompleteUserGet(r) ==
    /\ req[r].pc = "ctGet"
    /\ LET q == [req[r] EXCEPT !.userSnap = users[req[r].studentUid], !.stamp = now]
       IN SetReq(r, IF CooldownActive(q.userSnap.lastTaskTime, now)
                    THEN Respond(q, 429, "Wait a few minutes!")
                    ELSE [q EXCEPT !.pc = "ctUpd", !.points = 50])
    /\ UNCHANGED users
    /\ XpFrame

(* const newXp = (userData.xp || 0) + 50;                                  *)
(* await userRef.update({ xp: newXp, lastTaskTime: now }); badges          *)
CompleteUpdate(r) ==
    /\ req[r].pc = "ctUpd"
    /\ LET newXp == req[r].userSnap.xp + req[r].points
       IN /\ users' = [users EXCEPT ![req[r].studentUid].xp = newXp,
                                    ![req[r].studentUid].lastTaskTime = req[r].stamp]
          /\ SetReq(r, EvaluateBadges(req[r], newXp, "Task Verified! +50 XP"))
    /\ XpFrame

(* POST /quizAttempt (index.js:267-280)                                    *)
QuizStart(r) ==
    /\ req[r].pc = "idle"
    /\ build = "index"
    /\ \E uid \in XpUids \cup {Undefined}, sc \in Scores :
         LET q == [StartReq(r, "quizAttempt") EXCEPT !.studentUid = uid, !.score = sc]
         IN SetReq(r, IF uid = Undefined THEN Respond(q, 400, "Invalid")
                      ELSE [q EXCEPT !.pc = "qzAdd"])
    /\ UNCHANGED users
    /\ XpFrame

(* await collection('userProgress').doc(userId).collection('attempts').add *)
QuizAttemptAdd(r) ==
    /\ req[r].pc = "qzAdd"
    /\ userProgress' = [userProgress EXCEPT ![req[r].studentUid] = @ + 1]
    /\ SetReq(r, IF req[r].score > 60 THEN [req[r] EXCEPT !.pc = "qzXp", !.points = 20]
                 ELSE Respond(req[r], 200, "ok"))
    /\ UNCHANGED <<build, env_DEMO_MODE, now, live_sessions, attendance, users,
                   department_stats, Elsewhere>>

(* await userRef.update({ xp: increment(20) })                             *)
QuizXp(r) ==
    /\ req[r].pc = "qzXp"
    /\ users' = [users EXCEPT ![req[r].studentUid].xp = @ + req[r].points]
    /\ SetReq(r, Respond([req[r] EXCEPT !.award = "xp"], 200, "ok"))
    /\ XpFrame

(* POST /updateResume (index.js:582-596): authHeader.split throws when the *)
(* header is absent; a header without 'Bearer ' leaves token undefined.    *)
ResumeStart(r) ==
    /\ req[r].pc = "idle"
    /\ build = "index"
    /\ \E c \in Creds :
         LET q == [StartReq(r, "updateResume") EXCEPT !.cred = c]
         IN SetReq(r, IF c.kind = "missing" THEN Respond(q, 500, "TypeError")
                      ELSE IF c.kind = "malformed" THEN Respond(q, 401, "Missing token")
                      ELSE [q EXCEPT !.pc = "rsVerify"])
    /\ UNCHANGED users
    /\ XpFrame

(* await verifyIdToken(token); if (!resumeData) 400                        *)
ResumeVerify(r) ==
    /\ req[r].pc = "rsVerify"
    /\ \E hasData \in BOOLEAN :
         SetReq(r, IF req[r].cred.kind # "valid"
                   THEN Respond(req[r], 500, "verifyIdToken rejected")
                   ELSE IF ~hasData
                   THEN Respond([req[r] EXCEPT !.studentUid = req[r].cred.uid], 400, "No data")
                   ELSE [req[r] EXCEPT !.studentUid = req[r].cred.uid,
                                       !.pc = "rsUpd", !.points = 50])
    /\ UNCHANGED users
    /\ XpFrame

(* await userRef.update({ resumeData: resumeData, xp: increment(50) })     *)
ResumeUpdate(r) ==
    /\ req[r].pc = "rsUpd"
    /\ users' = [users EXCEPT ![req[r].studentUid].xp = @ + req[r].points,
                              ![req[r].studentUid].resumeData = TRUE]
    /\ SetReq(r, Respond([req[r] EXCEPT !.award = "xp"], 200, "Updated! +50 XP"))
    /\ XpFrame

(* POST /submitInteractiveTask (index.js:708-727): a Coding task waits for *)
(* the mentor's check, any other task is compared on the spot.             *)
InteractiveStart(r) ==
    /\ req[r].pc = "idle"
    /\ build = "index"
    /\ \E uid \in XpUids, coding \in BOOLEAN, correct \in BOOLEAN :
         LET q == [StartReq(r, "interactiveTask") EXCEPT !.studentUid = uid]
         IN SetReq(r, IF coding THEN [q EXCEPT !.pc = "itAI"]
                      ELSE IF correct THEN [q EXCEPT !.pc = "itXp", !.points = 50]
                      ELSE Respond(q, 200, "not passed"))
    /\ UNCHANGED users
    /\ XpFrame

(* await callGroqAI("Code Mentor", ...): passed = aiCheck.passed           *)
InteractiveAI(r) ==
    /\ req[r].pc = "itAI"
    /\ \E passed \in BOOLEAN :
         SetReq(r, IF passed THEN [req[r] EXCEPT !.pc = "itXp", !.points = 50]
                   ELSE Respond(req[r], 200, "not passed"))
    /\ UNCHANGED users
    /\ XpFrame

(* await userRef.update({ xp: increment(credits) })                        *)
InteractiveXp(r) ==
    /\ req[r].pc = "itXp"
    /\ users' = [users EXCEPT ![req[r].studentUid].xp = @ + req[r].points]
    /\ SetReq(r, Respond([req[r] EXCEPT !.award = "xp"], 200, "passed"))
    /\ XpFrame

(* POST /createUser (index.js:286-314): the body, with its extras object.  *)
CreateStart(r) ==
    /\ req[r].pc = "idle"
    /\ NewUid \notin DOMAIN users
    /\ \A o \in Reqs : req[o].route # "createUser"
    /\ \E e \in ExtrasSet :
         SetReq(r, [StartReq(r, "createUser") EXCEPT !.extras = e, !.pc = "cuAuth"])
    /\ UNCHANGED users
    /\ XpFrame

(* await admin.auth().createUser(...)                                      *)
CreateAuth(r) ==
    /\ req[r].pc = "cuAuth"
    /\ SetReq(r, [req[r] EXCEPT !.studentUid = NewUid, !.pc = "cuSet"])
    /\ UNCHANGED users
    /\ XpFrame

(* { ..., xp: 0, badges: [], createdAt, ...extras }: a key of extras       *)
(* replaces the key written before it.                                     *)
NewUserDoc(extras) ==
    UserDoc(IF extras.xp = <<>> THEN 0 ELSE extras.xp[1],
            IF extras.badges = <<>> THEN {} ELSE extras.badges[1])

(* await collection('users').doc(userRecord.uid).set(userDoc)              *)
CreateSet(r) ==
    /\ req[r].pc = "cuSet"
    /\ users' = [u \in DOMAIN users \cup {req[r].studentUid} |->
                    IF u = req[r].studentUid THEN NewUserDoc(req[r].extras) ELSE users[u]]
    /\ SetReq(r, [req[r] EXCEPT !.pc = "cuClaims"])
    /\ XpFrame

(* await admin.auth().setCustomUserClaims(...)                             *)
CreateClaims(r) ==
    /\ req[r].pc = "cuClaims"
    /\ SetReq(r, Respond(req[r], 200, "User created successfully"))
    /\ UNCHANGED users
    /\ XpFrame

XpAwaits == {"xpBadgeUpd", "qtGet", "qtAI", "qtUpd", "ctGet", "ctUpd", "qzAdd", "qzXp",
             "rsVerify", "rsUpd", "itAI", "itXp", "cuAuth", "cuSet", "cuClaims"}

(* The pending call of a progression route rejects: its catch answers 500. *)
XpDependencyFailure(r) ==
    /\ req[r].pc \in XpAwaits
    /\ SetReq(r, Respond(req[r], 500, "dependency error"))
    /\ UNCHANGED users
    /\ XpFrame

(* The attendance award of the part_006 handler beside the task routes.    *)
MarkStartXp(r) == build = "part_006" /\ MarkStart(r)

InitXp == InitWith({Undefined})

NextXp ==
    \/ CooldownPasses
    \/ \E r \in Reqs :
         \/ QuickStart(r) \/ QuickUserGet(r) \/ QuickAI(r) \/ QuickUpdate(r)
         \/ CompleteStart(r) \/ CompleteUserGet(r) \/ CompleteUpdate(r)
         \/ XpBadgeUpdate(r)
         \/ QuizStart(r) \/ QuizAttemptAdd(r) \/ QuizXp(r)
         \/ ResumeStart(r) \/ ResumeVerify(r) \/ ResumeUpdate(r)
         \/ InteractiveStart(r) \/ InteractiveAI(r) \/ InteractiveXp(r)
         \/ CreateStart(r) \/ CreateAuth(r) \/ CreateSet(r) \/ CreateClaims(r)
         \/ XpDependencyFailure(r)
         \/ MarkStartXp(r)
         \/ MarkVerify(r)
         \/ MarkSessionGet(r)
         \/ MarkUserGet(r)
         \/ MarkAttendanceGet(r)
         \/ MarkAttendanceSet(r)
         \/ MarkUserUpdate(r)
         \/ MarkBadgeUpdate(r)

(* The progression routes of both builds, with the attendance award.       *)
SpecXp == InitXp /\ [][NextXp]_vars

(* The routes that evaluate badges: the task bonuses and the attendance    *)
(* award, within one cooldown interval.                                    *)
NextAward ==
    \E r \in Reqs :
         \/ QuickStart(r) \/ QuickUserGet(r) \/ QuickAI(r) \/ QuickUpdate(r)
         \/ CompleteStart(r) \/ CompleteUserGet(r) \/ CompleteUpdate(r)
         \/ XpBadgeUpdate(r)
         \/ XpDependencyFailure(r)
         \/ MarkStartXp(r)
         \/ MarkVerify(r)
         \/ MarkSessionGet(r)
         \/ MarkUserGet(r)
         \/ MarkAttendanceGet(r)
         \/ MarkAttendanceSet(r)
         \/ MarkUserUpdate(r)
         \/ MarkBadgeUpdate(r)

(* Student u has earned the first-tier badge and is one attendance short   *)
(* of the second.                                                          *)
AwardXp == 490

InitAward ==
    InitStore({Undefined},
              { [u \in Uids |-> IF u \in XpUids THEN UserDoc(AwardXp, {"novice"})
                                ELSE UserDoc(InitialXp(u), {})] })

SpecAward == InitAward /\ [][NextAward]_vars

(* --------------------------- checkAndAwardBadges ----------------------- *)
(* The function applied on its own: to every xp about the four thresholds  *)
(* and to a currentBadges that is the stored set or the default [].        *)
BadgeIds == { BADGE_RULES[i].id : i \in DOMAIN BADGE_RULES }

XpLevels == { 99, 100, 499, 500, 999, 1000, 1999, 2000 }

(* The xp of the evaluations that run beside or after the first one.       *)
RepeatXpLevels == { 100, 2000 }

(* The student holds any set of badges when the evaluations begin.         *)
InitBadges ==
    /\ build = "index"
    /\ InitStore({Undefined},
                 { [u \in Uids |-> UserDoc(InitialXp(u), IF u \in XpUids THEN held ELSE {})] :
                       held \in SUBSET BadgeIds })

(* checkAndAwardBadges(userRef, currentXp, currentBadges = []) is called.  *)
BadgeEvalWith(r, levels) ==
    /\ req[r].pc = "idle"
    /\ \E uid \in XpUids, xp \in levels, stored \in BOOLEAN :
         LET q == [StartReq(r, "badgeEval") EXCEPT
                      !.studentUid = uid,
                      !.userSnap = [users[uid] EXCEPT
                                       !.xp = xp,
                                       !.badges = IF stored THEN users[uid].badges ELSE {}]]
         IN SetReq(r, [EvaluateBadges(q, xp, "evaluated") EXCEPT !.award = "none"])
    /\ UNCHANGED users
    /\ XpFrame

BadgeEval(r) == BadgeEvalWith(r, XpLevels)

BadgeEvalRepeat(r) == BadgeEvalWith(r, RepeatXpLevels)

NextBadges ==
    \/ BadgeEval(1)
    \/ \E r \in Reqs \ {1} : BadgeEvalRepeat(r)
    \/ \E r \in Reqs :
         \/ XpBadgeUpdate(r)
         \/ XpDependencyFailure(r)

SpecBadges == InitBadges /\ [][NextBadges]_vars

(* ------------------------------ properties ----------------------------- *)
Mark(r) == req[r].route = "mark"

MarkDone(r) == Mark(r) /\ req[r].pc = "done"

(* The submission reached the ledger for a pair.                           *)
SamePair(a, b) ==
    /\ req[a].realSessionId = req[b].realSessionId
    /\ req[a].studentUid = req[b].studentUid
    /\ req[a].studentUid # Undefined

RecordsFor(s, u) == { d \in attendance : d.sessionId = s /\ d.studentId = u }

Succeeded(r) == MarkDone(r) /\ req[r].status = 200

(* The response that reports a first-time recording.                       *)
ObservedCreated(r) == Succeeded(r) /\ req[r].msg = "Attendance Marked!"

Awarded(r) == req[r].award # "none"

(* C1: the attendance ledger never holds two records with the same         *)
(* (sessionId, studentId), whatever submissions ran and however they       *)
(* interleaved.                                                            *)
C1_OneRecordPerPair ==
    \A d1 \in attendance, d2 \in attendance :
        (d1.sessionId = d2.sessionId /\ d1.studentId = d2.studentId) => d1 = d2

(* Two submissions of one pair have both written, at different times.      *)
C1_Witness ==
    \E a \in Reqs, b \in Reqs :
        /\ a # b /\ SamePair(a, b)
        /\ MarkDone(a) /\ MarkDone(b)
        /\ req[a].wroteRecord /\ req[b].wroteRecord
        /\ b \notin req[a].after /\ a \notin req[b].after
        /\ now > StartNow
        /\ \E s \in SessionIds, u \in Uids : Cardinality(RecordsFor(s, u)) = 1

(* C2: when a pair is submitted twice in sequence and both submissions     *)
(* succeed, there is one record, and the second submission has applied no  *)
(* progression award (xp, badges, attendanceCount are as the first left    *)
(* them).                                                                  *)
C2_SequentialDuplicateIdempotent ==
    \A a \in Reqs, b \in Reqs :
        (/\ a \in req[b].after
         /\ Succeeded(a) /\ Succeeded(b)
         /\ SamePair(a, b))
        => /\ Cardinality(RecordsFor(req[a].realSessionId, req[a].studentUid)) = 1
           /\ Awarded(a)
           /\ ~Awarded(b)

(* C3: of two overlapping successful submissions of one pair, exactly one  *)
(* observes Created and exactly one applies the progression award.         *)
C3_ConcurrentDuplicateOnce ==
    \A a \in Reqs, b \in Reqs :
        (/\ a # b
         /\ a \notin req[b].after /\ b \notin req[a].after
         /\ Succeeded(a) /\ Succeeded(b)
         /\ SamePair(a, b))
        => /\ ObservedCreated(a) # ObservedCreated(b)
           /\ Awarded(a) # Awarded(b)

(* C4: a stored attendance record is never changed or removed by a later   *)
(* step: every record of the ledger is in the ledger after the step with   *)
(* the same fields, timestamp included.                                    *)
C4_RecordImmutable == [][\A d \in attendance : d \in attendance']_vars

(* C5: a submission that has written progression has created the record of *)
(* its pair itself.                                                        *)
C5_ProgressionOnlyAfterCreate ==
    \A r \in Reqs : (Mark(r) /\ Awarded(r)) => (req[r].wroteRecord /\ req[r].created)

(* C6: a submission whose session lookup found no session, or an inactive  *)
(* one, has been answered 404 and has written no record.                   *)
C6_SessionGate ==
    \A r \in Reqs :
        (Mark(r) /\ req[r].lookedUp /\ (~req[r].session.exists \/ ~req[r].session.isActive))
        => /\ req[r].pc = "done"
           /\ req[r].status = 404
           /\ ~req[r].wroteRecord

(* The session was ended by an endSession before the submission looked it  *)
(* up.                                                                     *)
C6_Witness ==
    \E r \in Reqs :
        /\ MarkDone(r) /\ req[r].lookedUp /\ req[r].status = 404
        /\ req[r].session.exists /\ ~req[r].session.isActive

(* The responses of the validation states (credential, token, session,     *)
(* location, geofence).                                                    *)
ValidationFailures ==
    {"Missing token", "verifyIdToken rejected", "TypeError", "invalid path",
     "Invalid QR", "QR Expired!", "Session not active", "Location missing",
     "Too far!"}

StoreUnchanged ==
    /\ attendance' = attendance
    /\ users' = users
    /\ live_sessions' = live_sessions
    /\ department_stats' = department_stats

(* C7: a submission answered with a validation failure has written no      *)
(* record and no progression, and the step that answers it leaves the      *)
(* ledger, the profiles, the sessions and the department counter as they   *)
(* were.                                                                   *)
C7_ValidationFailureWritesNothing ==
    [][\A r \in Reqs :
          (req'[r].route = "mark" /\ req'[r].msg \in ValidationFailures)
          => /\ ~req'[r].wroteRecord
             /\ req'[r].award = "none"
             /\ (req'[r] # req[r] => StoreUnchanged)]_vars

(* A submission is rejected by the geofence, the last validation state,    *)
(* after an endSession has written beside it.                              *)
C7_Witness ==
    \E r \in Reqs :
        /\ MarkDone(r) /\ req[r].status = 403 /\ req[r].msg = "Too far!"
        /\ department_stats > 0

SameInput(a, b) ==
    /\ req[a].cred = req[b].cred
    /\ req[a].tok = req[b].tok
    /\ req[a].loc = req[b].loc

(* The earlier attempts of submission b: the same request, ended by a      *)
(* dependency error before b was sent.                                     *)
FailedAttempts(b) ==
    { a \in Reqs : /\ a \in req[b].after
                   /\ Mark(a) /\ SameInput(a, b)
                   /\ req[a].msg = "dependency error" }

(* C8: when a submission that failed with a dependency error is retried    *)
(* verbatim and the retry succeeds, and nobody else submitted for that     *)
(* student, the ledger holds one record of the pair and exactly one of the *)
(* attempts has applied the progression award.                             *)
C8_RetryAppliesAwardOnce ==
    \A b \in Reqs :
        (/\ Succeeded(b)
         /\ FailedAttempts(b) # {}
         /\ \A o \in Reqs \ (FailedAttempts(b) \cup {b}) :
                ~(Mark(o) /\ req[o].cred = req[b].cred))
        => /\ Cardinality(RecordsFor(req[b].realSessionId, req[b].studentUid)) = 1
           /\ Cardinality({ x \in FailedAttempts(b) \cup {b} : Awarded(x) }) = 1

(* C9: a submission that created a record and has responded has awarded XP *)
(* and evaluated the badges against the new XP.                            *)
C9_CreatedAwardsXp ==
    \A r \in Reqs :
        (MarkDone(r) /\ req[r].created) => (req[r].award = "xp" /\ req[r].evaluated)

(* The token of a request that reached the token check, split as the       *)
(* handler splits it.                                                      *)
IssuedAtMs(r) == parseInt(SplitToken(req[r].tok).timestamp)

NumericIssuedAt(r) ==
    /\ Mark(r)
    /\ req[r].studentUid # Undefined
    /\ SplitToken(req[r].tok).timestamp # Undefined
    /\ IssuedAtMs(r) # NaN

(* C10: a token with a numeric issuedAtMs is answered 400 when             *)
(* now - issuedAtMs > 15000 at the check ("QR Expired!" when its sessionId *)
(* is not empty), and is not answered "QR Expired!" when                   *)
(* now - issuedAtMs <= 15000: with a non-empty sessionId it goes on to the *)
(* session lookup.                                                         *)
C10_FreshnessWindow ==
    \A r \in Reqs :
        NumericIssuedAt(r) =>
            LET age == req[r].parsedAt - IssuedAtMs(r)
                sid == SplitToken(req[r].tok).realSessionId
            IN /\ age > 15000 =>
                    /\ req[r].pc = "done" /\ req[r].status = 400
                    /\ sid # <<>> => req[r].msg = "QR Expired!"
               /\ age <= 15000 =>
                    /\ req[r].msg # "QR Expired!"
                    /\ sid # <<>> =>
                         \/ req[r].pc = "sessGet"
                         \/ req[r].lookedUp
                         \/ req[r].msg = "dependency error"

(* A token checked at exactly 15000 ms has been accepted and has reached   *)
(* the session lookup.                                                     *)
C10_Witness ==
    \E r \in Reqs :
        /\ NumericIssuedAt(r) /\ req[r].parsedAt - IssuedAtMs(r) = 15000
        /\ req[r].lookedUp

(* The scanned code of a parsed submission has a non-empty part after the  *)
(* separator.                                                              *)
HasTimestamp(r) ==
    /\ Mark(r)
    /\ req[r].studentUid # Undefined
    /\ SplitToken(req[r].tok).timestamp # Undefined
    /\ SplitToken(req[r].tok).timestamp # <<>>

(* The submission was parsed and was not answered by the token check.      *)
PassedTokenCheck(r) ==
    /\ Mark(r)
    /\ req[r].studentUid # Undefined
    /\ req[r].msg \notin {"Invalid QR", "QR Expired!", "invalid path"}

(* C11: a submission whose code has a non-empty part after the separator,  *)
(* whatever its characters, passes the token check only when that part is  *)
(* an issue time and now - issuedAt <= 15000 ms held at the check.         *)
C11_NonEmptyTimestampFresh ==
    \A r \in Reqs :
        (HasTimestamp(r) /\ PassedTokenCheck(r))
        => /\ IssuedAtMs(r) # NaN
           /\ req[r].parsedAt - IssuedAtMs(r) <= QR_WINDOW_SECONDS * 1000

(* The submission found its session active and came to the geofence block. *)
ReachedGeofence(r) == Mark(r) /\ req[r].lookedUp /\ SessionUsable(req[r].session)

PassedGeofence(r) ==
    /\ ReachedGeofence(r)
    /\ req[r].msg \notin {"Location missing", "Too far!", "TypeError"}

BothLocations(r) == req[r].session.location # <<>> /\ req[r].loc # <<>>

(* The distance between the two locations of the request, in tenths of a   *)
(* metre.                                                                  *)
DistanceOf(r) == Abs(req[r].session.location[1] - req[r].loc[1])

(* n is a whole number of metres nearest to the distance d.                *)
IsRounded(n, d) == 2 * Abs(n * UnitsPerMeter - d) <= UnitsPerMeter

(* C12: with validation enabled and both locations present, a submission   *)
(* passes the geofence exactly when the distance is at most 200 m (200 m   *)
(* itself passes), and one that does not pass is answered 403 with the     *)
(* rounded distance; with validation off every submission passes.          *)
C12_GeofenceDecision ==
    \A r \in Reqs :
        ReachedGeofence(r) =>
            /\ DEMO_MODE => PassedGeofence(r)
            /\ (~DEMO_MODE /\ BothLocations(r)) =>
                  /\ PassedGeofence(r) <=> DistanceOf(r) <= 200 * UnitsPerMeter
                  /\ ~PassedGeofence(r) =>
                        /\ req[r].pc = "done" /\ req[r].status = 403
                        /\ Len(req[r].distance) = 1
                        /\ IsRounded(req[r].distance[1], DistanceOf(r))

(* C13: with validation enabled, a submission whose session has no         *)
(* registered location, or that carries no device location, is answered    *)
(* 400 "Location missing".                                                 *)
C13_LocationMissing ==
    \A r \in Reqs :
        (ReachedGeofence(r) /\ ~DEMO_MODE /\ ~BothLocations(r))
        => /\ req[r].pc = "done"
           /\ req[r].status = 400
           /\ req[r].msg = "Location missing"

(* C14: when DEMO_MODE is not configured, a submission without a device    *)
(* location, or from farther than 200 m, is rejected (400 or 403) and      *)
(* writes no record.                                                       *)
C14_DefaultFailClosed ==
    \A r \in Reqs :
        (/\ ReachedGeofence(r)
         /\ env_DEMO_MODE = Undefined
         /\ \/ req[r].loc = <<>>
            \/ BothLocations(r) /\ DistanceOf(r) > 200 * UnitsPerMeter)
        => /\ req[r].pc = "done"
           /\ req[r].status \in {400, 403}
           /\ ~req[r].wroteRecord

(* C15: a submission whose bearer credential is missing, malformed or      *)
(* rejected by the identity verifier is answered 401 and has written       *)
(* nothing (an outage of the verifier itself aside).                       *)
C15_BadCredential401 ==
    \A r \in Reqs :
        (MarkDone(r) /\ req[r].cred.kind # "valid" /\ req[r].msg # "dependency error")
        => /\ req[r].status = 401
           /\ ~req[r].wroteRecord
           /\ req[r].award = "none"

End(r) == req[r].route = "end"

(* The endSession request found its session already inactive.              *)
FoundInactive(r) ==
    /\ End(r) /\ req[r].lookedUp
    /\ req[r].session.exists /\ ~req[r].session.isActive

(* C16: an endSession that finds its session already inactive answers 200  *)
(* at once: it has not written the session and has not incremented the     *)
(* department counter.                                                     *)
C16_EndInactiveNoOp ==
    \A r \in Reqs :
        FoundInactive(r)
        => /\ req[r].pc = "done" /\ req[r].status = 200
           /\ ~req[r].ended
           /\ ~req[r].counted

(* Session A was ended and counted once, and a second endSession of it     *)
(* has answered 200.                                                       *)
C16_Witness ==
    \E r \in Reqs :
        /\ FoundInactive(r) /\ req[r].pc = "done" /\ req[r].status = 200
        /\ ~live_sessions[req[r].realSessionId].isActive
        /\ department_stats = 1

(* The endSession requests that incremented the counter for session s.     *)
CountedFor(s) == { r \in Reqs : End(r) /\ req[r].realSessionId = s /\ req[r].counted }

EndCalls(s) == { r \in Reqs : End(r) /\ req[r].realSessionId = s }

(* C17: however the endSession calls of one active session interleave, the *)
(* department counter is incremented for it at most once, and exactly once *)
(* when all the calls have answered 200.                                   *)
C17_ConcurrentEndCountsOnce ==
    \A s \in SessionIds :
        /\ Cardinality(CountedFor(s)) <= 1
        /\ (/\ EndCalls(s) # {}
            /\ \A r \in EndCalls(s) : req[r].pc = "done" /\ req[r].status = 200)
           => Cardinality(CountedFor(s)) = 1

(* C18: no step takes a session from inactive to active.                   *)
C18_NeverReactivated ==
    [][\A s \in SessionIds :
          ~live_sessions[s].isActive => ~live_sessions'[s].isActive]_vars

(* Two racing endSession calls have both written the flag of session A,    *)
(* the second one onto a session that was already inactive.                *)
C18_Witness ==
    \E a \in Reqs, b \in Reqs :
        /\ a # b /\ req[a].ended /\ req[b].ended
        /\ req[a].realSessionId = req[b].realSessionId
        /\ ~live_sessions[req[a].realSessionId].isActive

(* C19: no step lowers a student's xp, and xp is never negative, whatever  *)
(* XP-awarding requests run and however they interleave.                   *)
C19_XpMonotone ==
    [][\A u \in DOMAIN users : users'[u].xp >= users[u].xp /\ users'[u].xp >= 0]_vars

BadgeThreshold(id) ==
    BADGE_RULES[CHOOSE i \in DOMAIN BADGE_RULES : BADGE_RULES[i].id = id].threshold

(* C20: every badge a student holds has a threshold that the student's     *)
(* stored xp has reached.                                                  *)
C20_BadgesWithinXp ==
    \A u \in DOMAIN users : \A b \in users[u].badges : BadgeThreshold(b) <= users[u].xp

(* The requests whose badge evaluation returned the first-tier badge as    *)
(* newly granted to student u.                                             *)
ReportedNovice(u) ==
    { r \in Reqs : /\ req[r].studentUid = u
                   /\ req[r].evaluated
                   /\ "novice" \in req[r].newBadges }

(* Every request has responded, none with a dependency error.              *)
AllAnswered ==
    \A r \in Reqs : req[r].pc \in {"idle", "done"} /\ req[r].msg # "dependency error"

(* C21: for a student who starts below 100 xp, at most one request reports *)
(* the first-tier badge as newly granted, and when all requests have       *)
(* responded with the student's xp at 100 or more, exactly one has.        *)
C21_NoviceGrantedOnce ==
    \A u \in Uids :
        InitialXp(u) < 100 =>
            /\ Cardinality(ReportedNovice(u)) <= 1
            /\ (AllAnswered /\ users[u].xp >= 100) => Cardinality(ReportedNovice(u)) = 1

(* The successful awards of the cooldown-gated routes.                     *)
BonusAwarded(r) ==
    /\ req[r].route \in {"quickTask", "completeTask"}
    /\ req[r].award = "xp"

(* C22: two awards of the cooldown-gated bonus to one student are at least *)
(* 15 minutes apart, and a request that reads a last award less than 15    *)
(* minutes old is answered 429 and awards nothing.                         *)
C22_CooldownBetweenAwards ==
    /\ \A a \in Reqs, b \in Reqs :
          (a # b /\ BonusAwarded(a) /\ BonusAwarded(b)
           /\ req[a].studentUid = req[b].studentUid)
          => Abs(req[a].stamp - req[b].stamp) >= 15 * 60 * 1000
    /\ \A r \in Reqs :
          (/\ req[r].route \in {"quickTask", "completeTask"}
           /\ req[r].stamp # NoTime
           /\ LET last == IF req[r].route = "quickTask"
                          THEN req[r].userSnap.lastQuickTaskTime
                          ELSE req[r].userSnap.lastTaskTime
              IN last # NoTime /\ req[r].stamp - last < 15 * 60 * 1000)
          => req[r].pc = "done" /\ req[r].status = 429 /\ req[r].award = "none"

(* The thresholds of the four rules, as the claim lists them.              *)
RuleThreshold(b) ==
    CASE b = "novice" -> 100 [] b = "enthusiast" -> 500
      [] b = "expert" -> 1000 [] b = "master" -> 2000

ExpectedBadges(xp, held) ==
    { b \in {"novice", "enthusiast", "expert", "master"} :
          RuleThreshold(b) <= xp /\ b \notin held }

BadgeEvalOf(q) == q.route = "badgeEval" /\ q.evaluated

(* C23: an evaluation returns exactly the ids of the rules 100/500/1000/   *)
(* 2000 whose threshold is at most xp and that currentBadges does not      *)
(* hold, and the update that follows leaves the stored badges equal to the *)
(* union of the set stored before it and the returned ids.                 *)
C23_BadgeDelta ==
    [][\A r \in Reqs :
          BadgeEvalOf(req'[r]) =>
             /\ req'[r].newBadges =
                   ExpectedBadges(req'[r].userSnap.xp, req'[r].userSnap.badges)
             /\ (req[r].pc = "xpBadgeUpd" /\ req'[r].status = 200)
                => users'[req[r].studentUid].badges =
                      users[req[r].studentUid].badges \cup req[r].newBadges]_vars

(* An evaluation at 1000 xp with the default currentBadges has returned    *)
(* three ids and stored them beside the badge held before.                 *)
C23_Witness ==
    \E r \in Reqs :
        /\ BadgeEvalOf(req[r]) /\ req[r].pc = "done" /\ req[r].status = 200
        /\ req[r].userSnap.xp = 1000
        /\ req[r].newBadges = {"novice", "enthusiast", "expert"}
        /\ users[req[r].studentUid].badges = {"novice", "enthusiast", "expert", "master"}

(* Evaluation b follows evaluation a at the same xp and is given the       *)
(* badges that a left: those a was given and those a returned.             *)
SecondEvaluation(a, b) ==
    /\ a # b
    /\ BadgeEvalOf(req[a]) /\ BadgeEvalOf(req[b])
    /\ a \in req[b].after
    /\ req[a].status = 200
    /\ req[a].studentUid = req[b].studentUid
    /\ req[b].userSnap.xp = req[a].userSnap.xp
    /\ req[b].userSnap.badges = req[a].userSnap.badges \cup req[a].newBadges

(* C24: the second of two evaluations at the same xp, given the badges the *)
(* first one stored, returns nothing and no step of it changes the stored  *)
(* badge set.                                                              *)
C24_EvaluationIdempotent ==
    [][\A a \in Reqs, b \in Reqs :
          SecondEvaluation(a, b)' =>
             /\ req'[b].newBadges = {}
             /\ req'[b].pc = "done"
             /\ (req'[b] # req[b] => users' = users)]_vars

(* The first evaluation granted badges and the second one has run.         *)
C24_Witness ==
    \E a \in Reqs, b \in Reqs :
        /\ SecondEvaluation(a, b)
        /\ req[a].newBadges # {}
        /\ req[b].pc = "done"

(* C25: no step of the attendance award, of a task bonus or of a badge     *)
(* evaluation removes a badge from a student's stored badge set.           *)
C25_BadgesOnlyGrow ==
    [][\A u \in DOMAIN users : users[u].badges \subseteq users'[u].badges]_vars

(* A student who held the first-tier badge has been awarded the second,    *)
(* twice over by overlapping requests, and holds both.                     *)
C25_Witness ==
    \E a \in Reqs, b \in Reqs :
        /\ a # b
        /\ req[a].studentUid = req[b].studentUid
        /\ req[a].newBadges = {"enthusiast"} /\ req[a].pc = "done" /\ req[a].status = 200
        /\ req[b].newBadges = {"enthusiast"} /\ req[b].pc = "done" /\ req[b].status = 200
        /\ users[req[a].studentUid].badges = {"novice", "enthusiast"}

(* The check that answered the submission.                                 *)
StageOf(m) ==
    CASE m \in {"Missing token", "verifyIdToken rejected"} -> "identity"
      [] m \in {"TypeError", "Invalid QR", "QR Expired!", "invalid path"} -> "token"
      [] m = "Session not active" -> "session"
      [] m \in {"Location missing", "Too far!"} -> "location"
      [] OTHER -> "none"

IdentityFails(r) == req[r].cred.kind # "valid"

(* The code is absent, has an empty sessionId, or was expired when it was  *)
(* checked.                                                                *)
TokenFails(r) ==
    \/ req[r].tok = Undefined
    \/ SplitToken(req[r].tok).realSessionId = <<>>
    \/ /\ req[r].parsedAt # 0
       /\ QrExpired(SplitToken(req[r].tok).timestamp, req[r].parsedAt)

SessionFails(r) == req[r].lookedUp /\ ~(req[r].session.exists /\ req[r].session.isActive)

LocationFails(r) ==
    /\ req[r].lookedUp
    /\ ~DEMO_MODE
    /\ \/ ~BothLocations(r)
       \/ DistanceOf(r) > 200 * UnitsPerMeter

(* A submission that was answered by the handler itself.                   *)
Answered(r) == MarkDone(r) /\ req[r].msg # "dependency error"

EmptySessionId(r) ==
    /\ Mark(r)
    /\ req[r].studentUid # Undefined
    /\ req[r].realSessionId = <<>>

(* C27: a submission whose code yields an empty sessionId is answered 400  *)
(* "Invalid QR", and has looked up no session and written no record.       *)
C27_EmptySessionIdRejected ==
    \A r \in Reqs :
        EmptySessionId(r)
        => /\ req[r].pc = "done"
           /\ req[r].status = 400
           /\ req[r].msg = "Invalid QR"
           /\ ~req[r].lookedUp
           /\ ~req[r].wroteRecord

(* The code of a parsed submission names a session and has no issue time:  *)
(* no separator, or nothing after it.                                      *)
NoIssueTime(r) ==
    /\ Mark(r)
    /\ req[r].studentUid # Undefined
    /\ req[r].realSessionId # <<>>
    /\ SplitToken(req[r].tok).timestamp \in {Undefined, <<>>}

(* C28: a code without an issue time passes the token check at any time:   *)
(* the submission goes on to the session lookup.                           *)
C28_NoTimestampAccepted ==
    \A r \in Reqs :
        NoIssueTime(r)
        => /\ req[r].msg \notin {"Invalid QR", "QR Expired!"}
           /\ \/ req[r].pc = "sessGet"
              \/ req[r].lookedUp
              \/ req[r].msg = "dependency error"

(* A code that ends with the separator was checked after the clock moved   *)
(* and its submission has reached the session lookup.                      *)
C28_Witness ==
    \E r \in Reqs :
        /\ NoIssueTime(r)
        /\ SplitToken(req[r].tok).timestamp = <<>>
        /\ req[r].parsedAt > StartNow
        /\ req[r].lookedUp

(* The submission was refused or ended in an error.                        *)
Refused(r) == MarkDone(r) /\ req[r].status # 200

(* An entry of the error stream that names the session and the student of  *)
(* the submission.                                                         *)
AuditEntry(e, q) ==
    /\ {"sessionId", "studentId"} \subseteq DOMAIN e
    /\ e.sessionId = q.realSessionId
    /\ e.studentId = q.studentUid

(* C29: every submission that was refused or ended in an error has written *)
(* a log entry that carries its session and student identifiers.           *)
C29_RefusalsLogged ==
    \A r \in Reqs :
        Refused(r)
        => \E i \in DOMAIN req[r].console : AuditEntry(req[r].console[i], req[r])

(* C30: a record is created only for a session that is active at the       *)
(* moment of the write: a submission overtaken by endSession between its   *)
(* session check and its write creates no record.                          *)
C30_NoRecordAfterEnd ==
    [][\A d \in attendance' :
           d.id \notin { e.id : e \in attendance }
           => SessionGet(d.sessionId).exists /\ SessionGet(d.sessionId).isActive]_vars

(* No request is in flight and none was cut short by a failing dependency. *)
Quiescent ==
    \A r \in Reqs : req[r].pc \in {"idle", "done"} /\ req[r].msg # "dependency error"

RecordsOf(u) == { d \in attendance : d.studentId = u }

(* C31: once the submissions have been answered, every student's           *)
(* attendanceCount is the number of attendance records stored for the      *)
(* student (current handler).                                              *)
C31_CountMatchesRecords ==
    (build = "index" /\ Quiescent)
    => \A u \in DOMAIN users : users[u].attendanceCount = Cardinality(RecordsOf(u))

(* The submissions that wrote a record with their credential's student.    *)
WritersAs(u) ==
    { r \in Reqs : Mark(r) /\ req[r].wroteRecord
                   /\ req[r].cred.kind = "valid" /\ req[r].cred.uid = u }

(* C32: every attendance record carries, in its studentId and in the       *)
(* student part of its key, the student of the bearer credential of a      *)
(* submission that wrote it, whatever the body of the submission names.    *)
C32_RecordBelongsToCredential ==
    \A d \in attendance :
        /\ d.id = AttendanceDocId(d.sessionId, d.studentId)
        /\ \E r \in WritersAs(d.studentId) : req[r].realSessionId = d.sessionId

(* A submission whose body names another student has written its record.   *)
C32_Witness ==
    \E r \in Reqs :
        /\ Mark(r)
        /\ req[r].wroteRecord
        /\ req[r].bodyStudentId \in Uids \ {req[r].cred.uid}
        /\ \E d \in attendance : d.studentId = req[r].cred.uid

(* endSession a marked the session inactive and failed at the counter      *)
(* write; endSession b, sent after a had been answered, is the retry and   *)
(* was answered 200.                                                       *)
RetriedEnd(a, b) ==
    /\ End(a) /\ End(b)
    /\ req[a].realSessionId = req[b].realSessionId
    /\ req[a].pc = "done"
    /\ req[a].ended /\ ~req[a].counted
    /\ req[a].session.instituteId /\ req[a].session.department
    /\ req[a].msg = "dependency error"
    /\ a \in req[b].after
    /\ req[b].pc = "done"
    /\ req[b].status = 200

(* C33: when endSession failed between marking the session inactive and    *)
(* the counter increment, the retried endSession leaves the class counter  *)
(* at exactly one increment for the session.                               *)
C33_RetryCountsSession ==
    \A a, b \in Reqs : RetriedEnd(a, b) => department_stats = 1

(* The step is the profile write of createUser request r.                  *)
WritesProfile(r) == req[r].pc = "cuSet" /\ req'[r].pc = "cuClaims"

(* C34: the profile that createUser writes has xp = 0 and no badges,       *)
(* whatever the body and its extras contain.                               *)
C34_NewProfileStartsEmpty ==
    [][\A r \in Reqs :
          WritesProfile(r)
          => /\ users'[req[r].studentUid].xp = 0
             /\ users'[req[r].studentUid].badges = {}]_vars

(* ============================ passkey routes =========================== *)
(* setTimeout(..., 1000 * 120)                                             *)
CHALLENGE_TTL_MS == 1000 * 120

(* The clock of the passkey routes moves by whole minutes, this many times.*)
MaxMinutes == 3

(* What the passkey routes never write.                                    *)
PkOthers == <<build, env_DEMO_MODE, live_sessions, attendance, users,
              department_stats, userProgress, req, passkeyBuild, TwoFactorState,
              DeleteState>>

SetPk(r, q) == pk' = [pk EXCEPT ![r] = q]

PkRespond(q, code) == [q EXCEPT !.pc = "done", !.status = code]

(* The challenges issued so far.                                           *)
IssuedChallenges == { pk[r].issued : r \in PkReqs } \ {NoChallenge}

(* options.challenge: a value that no earlier call produced.               *)
FreshChallenge == Cardinality(IssuedChallenges) + 1

(* The challenge a client's response was signed for: one it was issued, or *)
(* a stale one when none has been issued.                                  *)
ClientChallenges == IF IssuedChallenges = {} THEN {1} ELSE IssuedChallenges

(* A start call arrives: await db.collection('users').doc(userId).get() is *)
(* pending.                                                                *)
PkStart(r, route, next) ==
    /\ pk[r].pc = "idle"
    /\ \E u \in PkUsers :
         SetPk(r, [pk[r] EXCEPT !.route = route, !.userId = u, !.pc = next])
    /\ UNCHANGED <<PkOthers, now, challengeStore, timers, authenticators>>

(* GET /register-start                                                     *)
RegisterStart(r) == PkStart(r, "registerStart", "rsGet")

(* GET /login-start                                                        *)
LoginStart(r) == PkStart(r, "loginStart", "lsGet")

(* await ...get() of register-start resolves; generateRegistrationOptions  *)
(* is pending.                                                             *)
RegisterStartGet(r) ==
    /\ pk[r].pc = "rsGet"
    /\ SetPk(r, [pk[r] EXCEPT !.pc = "rsGen"])
    /\ UNCHANGED <<PkOthers, now, challengeStore, timers, authenticators>>

(* await ...get() of login-start resolves:                                 *)
(* if (!user.authenticators || user.authenticators.length === 0) 400       *)
LoginStartGet(r) ==
    /\ pk[r].pc = "lsGet"
    /\ SetPk(r, IF authenticators[pk[r].userId] = {} THEN PkRespond(pk[r], 400)
                ELSE [pk[r] EXCEPT !.pc = "lsGen"])
    /\ UNCHANGED <<PkOthers, now, challengeStore, timers, authenticators>>

(* challengeStore[userId] = options.challenge;                             *)
(* part_009: setTimeout(() => { delete challengeStore[userId]; }, 120000)  *)
(* res.json(options)                                                       *)
IssueChallenge(r) ==
    /\ challengeStore' = [challengeStore EXCEPT ![pk[r].userId] = FreshChallenge]
    /\ timers' = IF passkeyBuild = "part_009"
                 THEN timers \cup { [userId |-> pk[r].userId, at |-> now + CHALLENGE_TTL_MS] }
                 ELSE timers
    /\ SetPk(r, [PkRespond(pk[r], 200) EXCEPT !.issued = FreshChallenge, !.issuedAt = now])
    /\ UNCHANGED <<PkOthers, now, authenticators>>

(* await generateRegistrationOptions(...) resolves.                        *)
RegisterStartGen(r) == pk[r].pc = "rsGen" /\ IssueChallenge(r)

(* await generateAuthenticationOptions(...) resolves.                      *)
LoginStartGen(r) == pk[r].pc = "lsGen" /\ IssueChallenge(r)

(* The timer callback: delete challengeStore[userId].                      *)
TimerFires ==
    /\ \E t \in timers :
         /\ t.at <= now
         /\ challengeStore' = [challengeStore EXCEPT ![t.userId] = NoChallenge]
         /\ timers' = timers \ {t}
    /\ UNCHANGED <<PkOthers, now, authenticators, pk>>

(* A minute passes; the timers that were due have run.                     *)
MinutePasses ==
    /\ now < StartNow + MaxMinutes * MsPerMinute
    /\ \A t \in timers : t.at > now
    /\ now' = now + MsPerMinute
    /\ UNCHANGED <<PkOthers, challengeStore, timers, authenticators, pk>>

(* verifyRegistrationResponse / verifyAuthenticationResponse: the response *)
(* must carry the expected challenge; an undefined expected challenge      *)
(* matches no response.                                                    *)
Verified(data, expectedChallenge) ==
    expectedChallenge # NoChallenge /\ data.challenge = expectedChallenge

(* POST /register-finish arrives:                                          *)
(* const expectedChallenge = challengeStore[userId];                       *)
(* if (!expectedChallenge) return 400                                      *)
RegisterFinish(r) ==
    /\ pk[r].pc = "idle"
    /\ \E u \in PkUsers, c \in ClientChallenges :
         LET q == [pk[r] EXCEPT !.route = "registerFinish", !.userId = u,
                                !.data = [id |-> "k2", challenge |-> c],
                                !.expectedChallenge = challengeStore[u]]
         IN SetPk(r, IF challengeStore[u] = NoChallenge THEN PkRespond(q, 400)
                     ELSE [q EXCEPT !.pc = "rfVerify"])
    /\ UNCHANGED <<PkOthers, now, challengeStore, timers, authenticators>>

(* await verifyRegistrationResponse(...)                                   *)
RegisterFinishVerify(r) ==
    /\ pk[r].pc = "rfVerify"
    /\ LET q == [pk[r] EXCEPT !.verifyCalled = TRUE]
       IN SetPk(r, IF Verified(q.data, q.expectedChallenge)
                   THEN [q EXCEPT !.pc = "rfUpdate",
                                  !.verifiedAgainst = q.expectedChallenge]
                   ELSE PkRespond(q, 400))
    /\ UNCHANGED <<PkOthers, now, challengeStore, timers, authenticators>>

(* await update({ authenticators: arrayUnion(newAuthenticator) });         *)
(* delete challengeStore[userId]; res.json({ verified: true })             *)
RegisterFinishUpdate(r) ==
    /\ pk[r].pc = "rfUpdate"
    /\ authenticators' =
          [authenticators EXCEPT ![pk[r].userId] =
              @ \cup { [credentialID |-> pk[r].data.id, counter |-> 0] }]
    /\ challengeStore' = [challengeStore EXCEPT ![pk[r].userId] = NoChallenge]
    /\ SetPk(r, PkRespond(pk[r], 200))
    /\ UNCHANGED <<PkOthers, now, timers>>

(* POST /login-finish arrives: await ...get() is pending.                  *)
LoginFinish(r) ==
    /\ pk[r].pc = "idle"
    /\ \E u \in PkUsers, k \in CredentialIds, c \in ClientChallenges :
         SetPk(r, [pk[r] EXCEPT !.route = "loginFinish", !.userId = u,
                                !.data = [id |-> k, challenge |-> c],
                                !.pc = "lfGet"])
    /\ UNCHANGED <<PkOthers, now, challengeStore, timers, authenticators>>

(* user.authenticators of the snapshot the request read.                   *)
ListToRewrite(q) == q.user

(* await ...get() resolves.                                                *)
(* passkeyRoutes: expectedChallenge = challengeStore[userId]; find         *)
(* part_009:      the same, with if (!expectedChallenge) return 400 before *)
(*                the find                                                 *)
LoginFinishGet(r) ==
    /\ pk[r].pc = "lfGet"
    /\ LET u == pk[r].userId
           q == [pk[r] EXCEPT !.user = authenticators[u],
                              !.expectedChallenge = challengeStore[u]]
           found == { a \in q.user : a.credentialID = q.data.id }
       IN SetPk(r, IF passkeyBuild = "part_009" /\ q.expectedChallenge = NoChallenge
                   THEN PkRespond(q, 400)
                   ELSE IF found = {} THEN PkRespond(q, 400)
                   ELSE [q EXCEPT !.pc = "lfVerify"])
    /\ UNCHANGED <<PkOthers, now, challengeStore, timers, authenticators>>

(* await verifyAuthenticationResponse(...)                                 *)
LoginFinishVerify(r) ==
    /\ pk[r].pc = "lfVerify"
    /\ LET q == [pk[r] EXCEPT !.verifyCalled = TRUE]
           used == CHOOSE a \in q.user : a.credentialID = q.data.id
       IN SetPk(r, IF Verified(q.data, q.expectedChallenge)
                   THEN [q EXCEPT !.pc = "lfUpdate", !.newCounter = used.counter + 1,
                                  !.verifiedAgainst = q.expectedChallenge]
                   ELSE PkRespond(q, 400))
    /\ UNCHANGED <<PkOthers, now, challengeStore, timers, authenticators>>

(* await update({ authenticators: updatedAuths });                         *)
(* delete challengeStore[userId]; res.json({ verified: true })             *)
LoginFinishUpdate(r) ==
    /\ pk[r].pc = "lfUpdate"
    /\ authenticators' =
          [authenticators EXCEPT ![pk[r].userId] =
              { IF a.credentialID = pk[r].data.id
                THEN [a EXCEPT !.counter = pk[r].newCounter] ELSE a :
                a \in ListToRewrite(pk[r]) }]
    /\ challengeStore' = [challengeStore EXCEPT ![pk[r].userId] = NoChallenge]
    /\ SetPk(r, PkRespond(pk[r], 200))
    /\ UNCHANGED <<PkOthers, now, timers>>

InitPasskey ==
    /\ InitCore({Undefined}, { [u \in Uids |-> UserDoc(InitialXp(u), {})] })
    /\ build = "index"
    /\ passkeyBuild \in PasskeyBuilds
    /\ PasskeyIdle
    /\ TwoFactorIdle
    /\ DeleteIdle

NextPasskey ==
    \/ MinutePasses
    \/ TimerFires
    \/ \E r \in PkReqs :
         \/ RegisterStart(r)
         \/ RegisterStartGet(r)
         \/ RegisterStartGen(r)
         \/ RegisterFinish(r)
         \/ RegisterFinishVerify(r)
         \/ RegisterFinishUpdate(r)
         \/ LoginStart(r)
         \/ LoginStartGet(r)
         \/ LoginStartGen(r)
         \/ LoginFinish(r)
         \/ LoginFinishGet(r)
         \/ LoginFinishVerify(r)
         \/ LoginFinishUpdate(r)

SpecPasskey == InitPasskey /\ [][NextPasskey]_vars

(* =========================== two-factor routes ========================= *)
(* What the two-factor routes never write.                                 *)
TfaOthers == <<build, env_DEMO_MODE, now, live_sessions, attendance, users,
               department_stats, userProgress, req, PasskeyState, DeleteState>>

SetTfa(r, q) == tfa' = [tfa EXCEPT ![r] = q]

TfaRespond(q, code) == [q EXCEPT !.pc = "done", !.status = code]

(* The secrets generated so far.                                           *)
GeneratedSecrets == { tfa[r].secret : r \in TfaReqs } \ {NoSecret}

(* speakeasy.generateSecret(...).base32: a value not generated before.     *)
FreshSecret == Cardinality(GeneratedSecrets) + 1

(* The secret behind the code a user types: one that was shown to the      *)
(* user, or none (a wrong code).                                           *)
UserCodes == GeneratedSecrets \cup {NoSecret}

(* POST /setup2FA arrives with a bearer token: verifyIdToken is pending.   *)
Setup2FA(r) ==
    /\ tfa[r].pc = "idle"
    /\ \E u \in TfaUsers :
         SetTfa(r, [tfa[r] EXCEPT !.route = "setup2FA", !.uid = u, !.pc = "suVerify"])
    /\ UNCHANGED <<TfaOthers, secrets, is2FAEnabled>>

(* await verifyIdToken(token) resolves; generateSecret runs;               *)
(* QRCode.toDataURL is pending.                                            *)
SetupVerify(r) ==
    /\ tfa[r].pc = "suVerify"
    /\ SetTfa(r, [tfa[r] EXCEPT !.secret = FreshSecret, !.pc = "suQr"])
    /\ UNCHANGED <<TfaOthers, secrets, is2FAEnabled>>

(* await QRCode.toDataURL(...) resolves; the set is pending.               *)
SetupQr(r) ==
    /\ tfa[r].pc = "suQr"
    /\ SetTfa(r, [tfa[r] EXCEPT !.pc = "suSet"])
    /\ UNCHANGED <<TfaOthers, secrets, is2FAEnabled>>

(* collection('secrets').doc(uid).set(data): the document is replaced, so  *)
(* a field that data does not name is gone.                                *)
SecretsSet(doc, data) ==
    [exists |-> TRUE, secret |-> NoSecret, tempSecret |-> data.tempSecret]

(* await secrets.doc(uid).set({ tempSecret: secret.base32, createdAt })    *)
SetupSet(r) ==
    /\ tfa[r].pc = "suSet"
    /\ secrets' = [secrets EXCEPT ![tfa[r].uid] =
                      SecretsSet(@, [tempSecret |-> tfa[r].secret])]
    /\ SetTfa(r, TfaRespond(tfa[r], 200))
    /\ UNCHANGED <<TfaOthers, is2FAEnabled>>

(* POST /verify2FA arrives with a bearer token, a code and isLogin.        *)
Verify2FA(r) ==
    /\ tfa[r].pc = "idle"
    /\ \E u \in TfaUsers, c \in UserCodes, l \in BOOLEAN :
         SetTfa(r, [tfa[r] EXCEPT !.route = "verify2FA", !.uid = u, !.userCode = c,
                                  !.isLogin = l, !.pc = "vfVerify"])
    /\ UNCHANGED <<TfaOthers, secrets, is2FAEnabled>>

(* await verifyIdToken(token) resolves; the read of the secrets document   *)
(* is pending.                                                             *)
VerifyVerify(r) ==
    /\ tfa[r].pc = "vfVerify"
    /\ SetTfa(r, [tfa[r] EXCEPT !.pc = "vfGet"])
    /\ UNCHANGED <<TfaOthers, secrets, is2FAEnabled>>

(* speakeasy.totp.verify({ secret: secretKey, token: userCode, ... }): a   *)
(* code computed from another secret, or checked against a missing secret, *)
(* does not verify.                                                        *)
TotpVerify(secretKey, userCode) == secretKey # NoSecret /\ userCode = secretKey

(* await secrets.doc(uid).get() resolves:                                  *)
(* if (!secretDoc.exists) 400;                                             *)
(* secretKey = isLogin ? data.secret : data.tempSecret; verify             *)
VerifyGet(r) ==
    /\ tfa[r].pc = "vfGet"
    /\ LET doc == secrets[tfa[r].uid]
           key == IF tfa[r].isLogin THEN doc.secret ELSE doc.tempSecret
           q == [tfa[r] EXCEPT !.secretKey = key]
       IN SetTfa(r, IF ~doc.exists THEN TfaRespond(tfa[r], 400)
                    ELSE IF ~TotpVerify(key, tfa[r].userCode) THEN TfaRespond(q, 400)
                    ELSE IF tfa[r].isLogin THEN TfaRespond(q, 200)
                    ELSE [q EXCEPT !.pc = "vfSecret"])
    /\ UNCHANGED <<TfaOthers, secrets, is2FAEnabled>>

(* await secrets.doc(uid).update({ secret: secretKey, tempSecret: delete })*)
VerifySecretUpdate(r) ==
    /\ tfa[r].pc = "vfSecret"
    /\ secrets' = [secrets EXCEPT ![tfa[r].uid] =
                      [@ EXCEPT !.secret = tfa[r].secretKey, !.tempSecret = NoSecret]]
    /\ SetTfa(r, [tfa[r] EXCEPT !.pc = "vfFlag"])
    /\ UNCHANGED <<TfaOthers, is2FAEnabled>>

(* await users.doc(uid).update({ is2FAEnabled: true }); res.json(...)      *)
VerifyFlagUpdate(r) ==
    /\ tfa[r].pc = "vfFlag"
    /\ is2FAEnabled' = [is2FAEnabled EXCEPT ![tfa[r].uid] = TRUE]
    /\ SetTfa(r, TfaRespond(tfa[r], 200))
    /\ UNCHANGED <<TfaOthers, secrets>>

InitTwoFactor ==
    /\ InitCore({Undefined}, { [u \in Uids |-> UserDoc(InitialXp(u), {})] })
    /\ build = "index"
    /\ passkeyBuild = "passkeyRoutes"
    /\ PasskeyIdle
    /\ TwoFactorIdle
    /\ DeleteIdle

NextTwoFactor ==
    \E r \in TfaReqs :
        \/ Setup2FA(r)
        \/ SetupVerify(r)
        \/ SetupQr(r)
        \/ SetupSet(r)
        \/ Verify2FA(r)
        \/ VerifyVerify(r)
        \/ VerifyGet(r)
        \/ VerifySecretUpdate(r)
        \/ VerifyFlagUpdate(r)

SpecTwoFactor == InitTwoFactor /\ [][NextTwoFactor]_vars

(* ============================ deleteInstitute ========================== *)
(* limit(batchSize): the batch size, 500 in the calls of deleteInstitute,  *)
(* scaled to the number of documents of the model.                         *)
BatchSize == 2

(* What deleteInstitute never reads or writes here.                        *)
DelOthers == <<build, env_DEMO_MODE, now, live_sessions, attendance, users,
               department_stats, userProgress, req, PasskeyState, TwoFactorState>>

Min(a, b) == IF a < b THEN a ELSE b

(* deleteCollection(db, path, ...): a new promise, and the first           *)
(* deleteQueryBatch, whose query.get() is pending.                         *)
CallDeleteCollection(d, c) ==
    [d EXCEPT !.call = c, !.promise = "pending", !.round = 1, !.pc = "get", !.size = 0]

(* POST /deleteInstitute arrives and reaches its first deleteCollection.   *)
DeleteInstitute ==
    /\ deletion.pc = "idle"
    /\ deletion' = CallDeleteCollection(deletion, 1)
    /\ UNCHANGED <<DelOthers, matching>>

(* The awaited promise resolved: the handler calls the next                *)
(* deleteCollection, or answers { message: 'Deleted.' } after the last.    *)
AfterResolve(d) ==
    IF d.call < Len(DelCollections)
    THEN CallDeleteCollection([d EXCEPT !.promise = "resolved"], d.call + 1)
    ELSE [d EXCEPT !.promise = "resolved", !.pc = "done", !.status = 200]

(* const snapshot = await query.get();                                     *)
(* if (snapshot.size === 0) { resolve(); return; }                         *)
QueryGet ==
    /\ deletion.pc = "get"
    /\ LET n == Min(matching[deletion.call], BatchSize)
       IN deletion' = IF n = 0 THEN AfterResolve(deletion)
                      ELSE [deletion EXCEPT !.size = n, !.pc = "commit"]
    /\ UNCHANGED <<DelOthers, matching>>

(* await batch.commit(); process.nextTick(...) is scheduled.               *)
BatchCommit ==
    /\ deletion.pc = "commit"
    /\ matching' = [matching EXCEPT ![deletion.call] = @ - deletion.size]
    /\ deletion' = [deletion EXCEPT !.pc = "tick"]
    /\ UNCHANGED DelOthers

(* The nextTick callback: deleteQueryBatch(db, query, resolve), whose      *)
(* promise nobody holds.                                                   *)
NextTick ==
    /\ deletion.pc = "tick"
    /\ deletion' = [deletion EXCEPT !.round = @ + 1, !.pc = "get", !.size = 0]
    /\ UNCHANGED <<DelOthers, matching>>

(* The promise of deleteQueryBatch rejects. Round 1 is the call in         *)
(* deleteQueryBatch(db, query, resolve).catch(reject): the promise of      *)
(* deleteCollection rejects and the catch of the handler answers 500. A    *)
(* later round was called from the nextTick callback: its rejection is     *)
(* unhandled, and the promise of deleteCollection stays pending.           *)
Rejected(d) ==
    IF d.round = 1 THEN [d EXCEPT !.promise = "rejected", !.pc = "done", !.status = 500]
    ELSE [d EXCEPT !.pc = "lost"]

(* query.get() or batch.commit() rejects.                                  *)
BatchFails ==
    /\ deletion.pc \in {"get", "commit"}
    /\ deletion' = Rejected(deletion)
    /\ UNCHANGED <<DelOthers, matching>>

InitDelete ==
    /\ InitCore({Undefined}, { [u \in Uids |-> UserDoc(InitialXp(u), {})] })
    /\ build = "index"
    /\ passkeyBuild = "passkeyRoutes"
    /\ PasskeyIdle
    /\ TwoFactorIdle
    /\ matching \in [DOMAIN DelCollections -> 0..MaxDocs]
    /\ deletion = IdleDeletion

NextDelete ==
    \/ DeleteInstitute
    \/ QueryGet
    \/ BatchCommit
    \/ NextTick
    \/ BatchFails

SpecDelete == InitDelete /\ [][NextDelete]_vars

(* Every pending call of the handler eventually completes or fails.        *)
SpecDeleteLive == SpecDelete /\ WF_vars(NextDelete)

(* --------------------------- passkey claims ---------------------------- *)
PkFinish(r) == pk[r].route \in {"registerFinish", "loginFinish"}

(* The finish call has read challengeStore[userId] and found nothing.      *)
ReadNoChallenge(r) ==
    /\ PkFinish(r)
    /\ pk[r].pc \notin {"idle", "lfGet"}
    /\ pk[r].expectedChallenge = NoChallenge

(* A finish call that finds no challenge is answered 400 and verification  *)
(* is not invoked.                                                         *)
NoChallengeNoVerification ==
    \A r \in PkReqs :
        ReadNoChallenge(r)
        => pk[r].pc = "done" /\ pk[r].status = 400 /\ ~pk[r].verifyCalled

(* No two finish calls have succeeded against the same issued challenge.   *)
OneFinishPerChallenge ==
    \A a, b \in PkReqs :
        (/\ a # b
         /\ PkFinish(a) /\ PkFinish(b)
         /\ pk[a].verifiedAgainst # NoChallenge
         /\ pk[a].status = 200 /\ pk[b].status = 200)
        => pk[a].verifiedAgainst # pk[b].verifiedAgainst

(* C35: a passkey finish call verifies only against an outstanding         *)
(* challenge: without one it is answered 400 and verification is not       *)
(* invoked, and one issued challenge supports at most one successful       *)
(* finish.                                                                 *)
C35_FinishNeedsOutstandingChallenge ==
    NoChallengeNoVerification /\ OneFinishPerChallenge

(* The challenge that the latest start call for u issued, and when.        *)
LatestIssue(u) ==
    LET starts == { r \in PkReqs : pk[r].userId = u /\ pk[r].issued # NoChallenge }
    IN CHOOSE r \in starts : \A o \in starts : pk[o].issued <= pk[r].issued

HasIssue(u) == \E r \in PkReqs : pk[r].userId = u /\ pk[r].issued # NoChallenge

(* A finish call has succeeded against the challenge.                      *)
Consumed(c) ==
    \E r \in PkReqs : PkFinish(r) /\ pk[r].status = 200 /\ pk[r].verifiedAgainst = c

(* C36: a challenge stays in the store until it is consumed or 2 minutes   *)
(* have passed since it was issued, and is not in the store after those 2  *)
(* minutes; a timer armed by an earlier start call does not remove it      *)
(* (router with expiry timers).                                            *)
C36_ChallengeLivesTwoMinutes ==
    passkeyBuild = "part_009"
    => \A u \in PkUsers :
          HasIssue(u)
          => LET r == LatestIssue(u)
                 age == now - pk[r].issuedAt
             IN /\ (age < CHALLENGE_TTL_MS /\ ~Consumed(pk[r].issued))
                      => challengeStore[u] = pk[r].issued
                /\ age > CHALLENGE_TTL_MS => challengeStore[u] # pk[r].issued

(* C37: a step of login-finish removes no authenticator from a user's      *)
(* stored list: every credential in the list before the step is in the     *)
(* list after it.                                                          *)
C37_AuthenticatorsKept ==
    [][\A u \in PkUsers :
          { a.credentialID : a \in authenticators[u] }
              \subseteq { a.credentialID : a \in authenticators'[u] }]_vars

(* C38: whenever a user's is2FAEnabled flag is true, the user's secrets    *)
(* document holds the confirmed secret that login verification reads.      *)
C38_EnabledHasSecret ==
    \A u \in TfaUsers :
        is2FAEnabled[u] => secrets[u].exists /\ secrets[u].secret # NoSecret

(* deleteCollection resolves only when no matching document remains.       *)
ResolvedMeansEmpty ==
    \A c \in DOMAIN DelCollections :
        (deletion.call > c \/ (deletion.call = c /\ deletion.promise = "resolved"))
        => matching[c] = 0

(* C39: deleteInstitute always produces a response: every call of          *)
(* deleteCollection settles, by resolving when no matching document        *)
(* remains or by rejecting when a read or a commit fails in any round.     *)
C39_DeleteInstituteResponds ==
    (deletion.pc # "idle") ~> (deletion.pc = "done")
====
